---------------------------- MODULE Spec2Model ----------------------------
(***************************************************************************)
(* A model of the csrank preference-learning library: the learner          *)
(* lifecycle (fit / predict_scores / predict), the choice-function         *)
(* threshold tuner and the RankNet / CmpNet layer bookkeeping, the         *)
(* pairwise networks, the keyword arguments and parameters of a Learner,   *)
(* and the job database of the experiment runner.                          *)
(*                                                                         *)
(* Conventions.                                                            *)
(*  - A score is an integer in units of 0.5: 0 is 0.0, 1 is 0.5, 2 is 1.0. *)
(*  - A batch X is a sequence of instances, an instance a sequence of      *)
(*    objects, an object one integer feature value.  Y has the same shape  *)
(*    with BOOLEAN entries (subset choice labels).                         *)
(*  - Python objects that are compared by identity (keras layers) are      *)
(*    numbers: 0 stands for None / attribute not set, k > 0 for the k-th   *)
(*    layer set ever constructed.                                          *)
(*  - A method is an operator from the state it reads to a record          *)
(*    [w, val, exc, log]: the state it leaves, the value it returns, the   *)
(*    exception it raises ("none" when it returns) and the calls it made.  *)
(***************************************************************************)
EXTENDS Integers, Sequences, FiniteSets, TLC

\* ------------------------------------------------------------------ bounds
\* largest score value the tuner's validation scores take
MaxScore == 3
\* largest thin_thresholds stride
MaxThin == 2

\* the tuner's validation set: two instances of two objects each
TuneInstances == 1..2
TuneObjects == 1..2
\* validation scores: the baseline 0.0 and the positive values
ScoreVals == 0..MaxScore

\* ------------------------------------------------------------- variables
VARIABLES
    tune_in,    \* the arguments of a _tune_threshold scan: [scores, Y, thin]
    tune_out,   \* what the scan returned: [called, threshold, best]
    learner,    \* the attributes of a choice-function learner
    weights,    \* weights[k]: the trainable weights of the k-th layer set
    np_random,  \* the state of numpy's global random generator
    ret,        \* the outcome of the last call made on the learner
    avail_jobs,    \* the table avail_jobs of the job database, by job_id
    running_jobs,  \* the table running_jobs of the job database, by job_id
    connector,     \* the DBConnector object of every worker, by cluster_id
    now            \* datetime.now()

tuneVars == <<tune_in, tune_out>>
learnerVars == <<learner, weights, np_random, ret>>
dbVars == <<avail_jobs, running_jobs, connector, now>>
vars == <<tune_in, tune_out, learner, weights, np_random, ret,
          avail_jobs, running_jobs, connector, now>>

\* no job database is in use
NoDatabase ==
    /\ avail_jobs = <<>> /\ running_jobs = <<>> /\ connector = <<>> /\ now = 0

\* ------------------------------------------------------------ sequences
RECURSIVE SumSeq(_)
SumSeq(s) == IF s = <<>> THEN 0 ELSE Head(s) + SumSeq(Tail(s))

RECURSIVE Gcd(_, _)
Gcd(a, b) == IF b = 0 THEN a ELSE Gcd(b, a % b)

RECURSIVE LcmUpTo(_)
LcmUpTo(n) == IF n <= 1 THEN 1 ELSE LET l == LcmUpTo(n - 1) IN (l * n) \div Gcd(l, n)

\* The ascending sequence of the elements of a finite set of integers.
RECURSIVE SortedSeq(_)
SortedSeq(S) ==
    IF S = {} THEN <<>>
    ELSE LET m == CHOOSE x \in S : \A y \in S : x <= y
         IN <<m>> \o SortedSeq(S \ {m})

\* --------------------------------------------------------------- f1_score
\* The common denominator of every per-sample F1 value 2*tp / (|y| + |p|)
\* of a row of m objects.
F1Den(m) == LcmUpTo(2 * m)

\* One sample's F1 times F1Den: 2*tp / (true_sum + pred_sum), 0 when the
\* denominator is 0 (sklearn's zero_division default).
SampleF1(y, p) ==
    LET m    == Len(y)
        tp   == Cardinality({i \in 1..m : y[i] /\ p[i]})
        tsum == Cardinality({i \in 1..m : y[i]})
        psum == Cardinality({i \in 1..m : p[i]})
    IN IF tsum + psum = 0 THEN 0 ELSE (2 * tp * F1Den(m)) \div (tsum + psum)

\* f1_score(Y, pred, average='samples') times Len(Y) * F1Den: the sum of the
\* per-sample values.  Two results over the same Y compare as the floats do
\* in exact arithmetic.
f1_score(Y, pred) == SumSeq([n \in 1..Len(Y) |-> SampleF1(Y[n], pred[n])])

\* scores > t, elementwise
Greater(scores, t) ==
    [n \in 1..Len(scores) |-> [i \in 1..Len(scores[n]) |-> scores[n][i] > t]]

GreaterOrEqual(scores, t) ==
    [n \in 1..Len(scores) |-> [i \in 1..Len(scores[n]) |-> scores[n][i] >= t]]

\* np.unique(scores): the sorted unique values of the flattened array
np_unique(scores) ==
    SortedSeq(UNION {{scores[n][i] : i \in 1..Len(scores[n])} : n \in 1..Len(scores)})

\* ------------------------------------------------------- _tune_threshold
\* probs[::thin_thresholds]: the elements at the 0-based indices 0, thin, 2*thin, ...
ThinProbsFromStride(probs, thin) ==
    [k \in 1..(Len(probs) \div thin) |-> probs[k * thin]]
ThinProbs(probs, thin) ==
    [k \in 1..((Len(probs) + thin - 1) \div thin) |-> probs[(k - 1) * thin + 1]]

\* the baseline candidate: threshold = 0.0
Baseline == 0

ImprovesOrTies(f1, best) == f1 >= best
\* if f1 > best
Improves(f1, best) == f1 > best

\* for i, p in enumerate(probs): ... threshold, best updated on improvement
RECURSIVE ScanLoop(_, _, _, _, _, _)
ScanLoop(probs, k, threshold, best, scores, Y_val) ==
    IF k > Len(probs) THEN [threshold |-> threshold, best |-> best]
    ELSE LET p  == probs[k]
             f1 == f1_score(Y_val, Greater(scores, p))
         IN IF Improves(f1, best)
            THEN ScanLoop(probs, k + 1, p, f1, scores, Y_val)
            ELSE ScanLoop(probs, k + 1, threshold, best, scores, Y_val)

ThresholdScanFromSecond(scores, Y_val, thin) ==
    ScanLoop(ThinProbs(np_unique(scores), thin), 2, Baseline,
             f1_score(Y_val, Greater(scores, Baseline)), scores, Y_val)
\* The scan of _tune_threshold once the validation scores are known: the
\* threshold it returns and the F1 (best) it logs with it.
ThresholdScan(scores, Y_val, thin) ==
    ScanLoop(ThinProbs(np_unique(scores), thin), 1, Baseline,
             f1_score(Y_val, Greater(scores, Baseline)), scores, Y_val)

\* ------------------------------------------------- the tuner on its own
TuneInputs ==
    [scores : [TuneInstances -> [TuneObjects -> ScoreVals]],
     Y      : [TuneInstances -> [TuneObjects -> BOOLEAN]],
     thin   : 1..MaxThin]

\* '{:.2f}'.format(num / den), in hundredths (halves rounded up)
Fmt2(num, den) == (200 * num + den) \div (2 * den)

\* the logger.info message of the scan: threshold and best, two decimals each
TuneLogged(scan, Y_val) ==
    <<Fmt2(scan.threshold, 2),
      Fmt2(scan.best, Len(Y_val) * F1Den(Len(Y_val[1])))>>

TuneReturnedWithF1(scan) == <<scan.threshold, scan.best>>
\* return threshold: the values handed to the caller
TuneReturned(scan) == <<scan.threshold>>

NotCalled ==
    [called |-> FALSE, threshold |-> 0, best |-> 0,
     returned |-> <<>>, logged |-> <<>>]

InitTune ==
    /\ tune_in \in TuneInputs
    /\ tune_out = NotCalled
    /\ learner = 0 /\ weights = <<>> /\ np_random = 0 /\ ret = 0
    /\ NoDatabase

\* _tune_threshold(X_val, Y_val, thin_thresholds) with predict_scores(X_val)
\* = tune_in.scores
TuneCall ==
    /\ ~tune_out.called
    /\ LET r == ThresholdScan(tune_in.scores, tune_in.Y, tune_in.thin)
       IN tune_out' = [called |-> TRUE, threshold |-> r.threshold,
                       best |-> r.best, returned |-> TuneReturned(r),
                       logged |-> TuneLogged(r, tune_in.Y)]
    /\ UNCHANGED tune_in
    /\ UNCHANGED <<learnerVars, dbVars>>

NextTune == TuneCall

SpecTune == InitTune /\ [][NextTune]_vars

\* The values the validation scores take, and the candidates the scan
\* evaluates: the baseline, then every thin-th unique score in ascending
\* order starting with the smallest.
TuneScoreSet ==
    {tune_in.scores[n][i] : n \in TuneInstances, i \in TuneObjects}
TuneScanned ==
    {v \in TuneScoreSet :
        Cardinality({u \in TuneScoreSet : u < v}) % tune_in.thin = 0}
TuneF1(c) == f1_score(tune_in.Y, Greater(tune_in.scores, c))
TuneOrder == <<Baseline>> \o SortedSeq(TuneScanned)
TuneMaxF1 ==
    CHOOSE f \in {TuneF1(c) : c \in TuneScanned \cup {Baseline}} :
        \A c \in TuneScanned \cup {Baseline} : TuneF1(c) <= f

\* C9: _tune_threshold returns a scanned candidate (0.0 or a thin-th unique
\* validation score) whose sample-averaged F1 is at least that of every
\* scanned candidate.
C9_ReturnsBestScanned ==
    tune_out.called =>
        /\ tune_out.threshold \in TuneScanned \cup {Baseline}
        /\ \A c \in TuneScanned \cup {Baseline} :
              TuneF1(tune_out.threshold) >= TuneF1(c)

\* a scan with a stride that skips scores, returning a score candidate that
\* beats the baseline
C9_Witness ==
    /\ tune_out.called
    /\ tune_in.thin > 1
    /\ Cardinality(TuneScoreSet) >= 3
    /\ tune_out.threshold # Baseline
    /\ TuneF1(tune_out.threshold) > TuneF1(Baseline)

\* C10: among the candidates that reach the maximum F1 the scan returns the
\* first in evaluation order: the baseline 0.0 if it reaches the maximum,
\* otherwise the smallest score candidate that does.
C10_FirstMaximumWins ==
    tune_out.called =>
        LET first == CHOOSE k \in 1..Len(TuneOrder) :
                        /\ TuneF1(TuneOrder[k]) = TuneMaxF1
                        /\ \A j \in 1..(k - 1) : TuneF1(TuneOrder[j]) < TuneMaxF1
        IN tune_out.threshold = TuneOrder[first]

\* two score candidates tie at the maximum, the baseline is below it, and
\* the smaller one is returned
C10_Witness ==
    /\ tune_out.called
    /\ TuneF1(Baseline) < TuneMaxF1
    /\ \E c1, c2 \in TuneScanned :
          /\ c1 < c2
          /\ TuneF1(c1) = TuneMaxF1
          /\ TuneF1(c2) = TuneMaxF1
          /\ Greater(tune_in.scores, c1) # Greater(tune_in.scores, c2)
          /\ tune_out.threshold = c1

\* The F1 value 1.0 on the validation set, in the units of f1_score.
TuneF1One == Cardinality(TuneInstances) * F1Den(Cardinality(TuneObjects))

\* C11 as stated: the caller of the tuner receives the selected threshold
\* together with the F1 that threshold achieved.
C11_ReturnsThresholdAndF1 ==
    tune_out.called =>
        /\ Len(tune_out.returned) = 2
        /\ tune_out.returned[1] = tune_out.threshold
        /\ tune_out.returned[2] = TuneF1(tune_out.threshold)

\* C11, amended: the caller of the tuner receives the selected threshold
\* only; the F1 that threshold achieved goes to the log message and nowhere
\* else.
C11_ReturnsThresholdOnly ==
    tune_out.called =>
        /\ tune_out.returned = <<tune_out.threshold>>
        /\ tune_out.best = TuneF1(tune_out.threshold)
        /\ tune_out.logged =
             <<Fmt2(tune_out.threshold, 2), Fmt2(TuneF1(tune_out.threshold), TuneF1One)>>

\* a scan that selected a score candidate with an F1 strictly between 0 and 1
C11_Witness ==
    /\ tune_out.called
    /\ tune_out.returned # <<Baseline>>
    /\ tune_out.logged[2] > 0
    /\ tune_out.logged[2] < 100

\* Some scanned candidate cuts the scores exactly at the labels.
TuneSeparatingScanned ==
    \E c \in TuneScanned \cup {Baseline} :
        \A n \in TuneInstances, i \in TuneObjects :
            tune_in.Y[n][i] <=> (tune_in.scores[n][i] > c)
\* Every instance of the validation set has a chosen object.
TuneEveryInstanceChooses ==
    \A n \in TuneInstances : \E i \in TuneObjects : tune_in.Y[n][i]

\* C12 as stated: when a scanned candidate separates the labels perfectly,
\* the returned threshold achieves sample-averaged F1 = 1.0.
C12_SeparableReachesF1One ==
    (tune_out.called /\ TuneSeparatingScanned) =>
        TuneF1(tune_out.threshold) = TuneF1One

\* C12, amended: when every instance has at least one positive label and a
\* scanned candidate separates the labels perfectly, the returned threshold
\* achieves sample-averaged F1 = 1.0.
C12_SeparableWithPositivesReachesF1One ==
    (tune_out.called /\ TuneSeparatingScanned /\ TuneEveryInstanceChooses) =>
        /\ TuneF1(tune_out.threshold) = TuneF1One
        /\ Greater(tune_in.scores, tune_out.threshold) = tune_in.Y

\* a separable validation set with positives everywhere where the baseline
\* does not separate and a stride skips scores
C12_Witness ==
    /\ tune_out.called /\ TuneSeparatingScanned /\ TuneEveryInstanceChooses
    /\ tune_in.thin > 1
    /\ TuneF1(Baseline) < TuneF1One
    /\ tune_out.threshold # Baseline

\* =================================================================
\* The choice-function learners: RankNetChoiceFunction (ChoiceFunctions
\* over RankNetCore) and FETAChoiceFunction (over FETANetwork).
\* =================================================================

\* ------------------------------------------------------------ bounds
\* layer sets that may be constructed in one run
MaxLayers == 2
\* trained weights take the values 1..MaxWeight
MaxWeight == 2
\* largest tune_size, counted in instances of the batch
MaxTune == 1

\* The random_state a learner is constructed with: None (0 here) or a seed.
RandomStates == {0, 1}
\* The states of numpy's global random generator.
RngStates == {0, 1}

\* ------------------------------------------------------- the test data
\* The batches handed to fit: three instances of two objects, with the
\* subset-choice labels.
Batches ==
    { [X |-> << <<0, 1>>, <<1, 2>>, <<2, 0>> >>,
       Y |-> << <<FALSE, TRUE>>, <<FALSE, TRUE>>, <<TRUE, FALSE>> >>],
      [X |-> << <<1, 1>>, <<0, 2>>, <<2, 1>> >>,
       Y |-> << <<TRUE, TRUE>>, <<FALSE, FALSE>>, <<TRUE, FALSE>> >>] }

\* What predict_scores / predict are called with: a single batch
\* [dict |-> FALSE, batch], or a mapping from set size to batch
\* [dict |-> TRUE, items] whose items are listed in the dict's order.
Arr(b) == [dict |-> FALSE, batch |-> b, items |-> <<>>]
Dict(items) == [dict |-> TRUE, batch |-> <<>>, items |-> items]
PredictInputs ==
    {Arr(b.X) : b \in Batches} \cup
    { Dict(<< [key |-> 2, x |-> << <<0, 1>>, <<2, 2>> >>],
              [key |-> 3, x |-> << <<0, 1, 2>> >>] >>) }

\* --------------------------------------------------------- exceptions
NoExc == "none"
\* what the pair conversion and the external trainer raise
TrainingErrors == {"ConvertError", "TrainError"}

\* Where the training of the scoring model fails: nowhere, in the pair
\* conversion, in the trainer before any weight update, or in the trainer
\* after weights were updated.
FailPoints == {"none", "convert", "train", "train_late"}

\* ----------------------------------------- the external numerical library
\* the weights of freshly constructed layers
InitialWeights == 0

\* keras Model.predict on one object: a deterministic function of the
\* weights and the object's features, with values 0.0, 0.5 or 1.0.
Net(w, x) == (w + x) % 3

\* What the training data contributes to the trained weights.
Digest(X, Y) ==
    SumSeq([n \in 1..Len(X) |->
        SumSeq([i \in 1..Len(X[n]) |-> IF Y[n][i] THEN X[n][i] + 1 ELSE 0])])

\* keras Model.fit: the weights after training, a deterministic function of
\* the weights training starts from and of the training data.
Train(w0, X, Y) == 1 + ((w0 + Digest(X, Y)) % MaxWeight)

\* sklearn's train_test_split(X, Y, test_size, random_state): the shuffle is
\* decided by the seed, or by the global generator (which it advances) when
\* random_state is None (0 here).  n_test instances go to the tuning split.
SplitSeed(random_state, rng) == IF random_state = 0 THEN rng ELSE random_state
train_test_split(X, Y, n_test, random_state, rng) ==
    LET n    == Len(X)
        s    == SplitSeed(random_state, rng)
        at(k) == ((s + k - 1) % n) + 1
    IN [X_val   |-> [k \in 1..n_test |-> X[at(k)]],
        Y_val   |-> [k \in 1..n_test |-> Y[at(k)]],
        X_train |-> [k \in 1..(n - n_test) |-> X[at(n_test + k)]],
        Y_train |-> [k \in 1..(n - n_test) |-> Y[at(n_test + k)]],
        rng     |-> IF random_state = 0 THEN (rng + 1) % Cardinality(RngStates) ELSE rng]

reshape_by_column(result, rows, cols) ==
    [i \in 1..rows |-> [c \in 1..cols |-> result[(c - 1) * rows + i]]]
\* result.reshape(rows, cols)
reshape(result, rows, cols) ==
    [i \in 1..rows |-> [c \in 1..cols |-> result[(i - 1) * cols + c]]]

\* ------------------------------------------------------ calls and results
\* The state a method works on.
World == [L |-> learner, wts |-> weights, rng |-> np_random]

Return(w, val, log) == [w |-> w, val |-> val, exc |-> NoExc, log |-> log]
Raise(w, exc, log) == [w |-> w, val |-> 0, exc |-> exc, log |-> log]

Count(log, ev) == Cardinality({k \in 1..Len(log) : log[k] = ev})

\* The element of a singleton.  Only({e(r) : r \in {c}}) is e of the value
\* of the call c, with c evaluated once.
Only(S) == CHOOSE x \in S : TRUE

\* --------------------------------------------------------- RankNetCore
\* __init__: no layers, no scoring model; threshold_ is not set.
RankNetChoiceFunction_init(random_state) ==
    [kind |-> "ranknet", random_state |-> random_state,
     hidden_layers |-> 0, model |-> 0, scoring_model |-> 0,
     has_threshold |-> FALSE, threshold |-> 0, tuned |-> FALSE]

\* _construct_layers: new hidden layers and a new output node.
construct_layers(w) ==
    [w EXCEPT !.wts = Append(w.wts, InitialWeights),
              !.L.hidden_layers = Len(w.wts) + 1]

\* RankNetCore.fit
RankNetCore_fit(w, X, Y, fail) ==
    IF fail = "convert" THEN Raise(w, "ConvertError", <<"fit">>)
    ELSE Only({
           LET id == w1.L.hidden_layers
               w2 == [w1 EXCEPT !.L.model = id]
               w3 == [w1 EXCEPT !.L.model = id,
                                !.wts[id] = Train(w1.wts[id], X, Y)]
           IN CASE fail = "train"      -> Raise(w2, "TrainError", <<"fit">>)
                [] fail = "train_late" -> Raise(w3, "TrainError", <<"fit">>)
                [] OTHER               -> Return(w3, 0, <<"fit">>)
           : w1 \in {construct_layers(w)} })

\* the scoring_model property: built from the current layers on first use
scoring_model(w) ==
    IF w.L.scoring_model = 0
    THEN IF w.L.hidden_layers = 0 THEN Raise(w, "AttributeError", <<>>)
         ELSE Return([w EXCEPT !.L.scoring_model = w.L.hidden_layers],
                     w.L.hidden_layers, <<>>)
    ELSE Return(w, w.L.scoring_model, <<>>)

\* the scores of a batch under the weights wt
BatchScores(wt, x) ==
    [n \in 1..Len(x) |-> [i \in 1..Len(x[n]) |-> Net(wt, x[n][i])]]

reshape_objects_by_column(X, n_instances, n_objects) ==
    [k \in 1..(n_instances * n_objects) |->
        X[((k - 1) % n_instances) + 1][((k - 1) \div n_instances) + 1]]
\* X.reshape(n_instances * n_objects, n_features): the objects of all
\* instances in one list, instance after instance
reshape_objects(X, n_instances, n_objects) ==
    [k \in 1..(n_instances * n_objects) |->
        X[((k - 1) \div n_objects) + 1][((k - 1) % n_objects) + 1]]

\* scoring_model.predict(X1): one score per row of X1
scoring_model_predict(wt, X1) == [k \in 1..Len(X1) |-> Net(wt, X1[k])]

\* the body of _predict_scores_fixed under the scoring model's weights
RankNetScores(wt, X) ==
    LET n_instances == Len(X)
        n_objects   == Len(X[1])
        X1          == reshape_objects(X, n_instances, n_objects)
        scores      == scoring_model_predict(wt, X1)
    IN reshape(scores, n_instances, n_objects)

\* RankNetCore._predict_scores_fixed
RankNetCore_predict_scores_fixed(w, x) ==
    Only({ IF sm.exc # NoExc
           THEN Raise(sm.w, sm.exc, <<"_predict_scores_fixed">>)
           ELSE Return(sm.w, RankNetScores(sm.w.wts[sm.val], x),
                       <<"_predict_scores_fixed">>)
           : sm \in {scoring_model(w)} })

\* --------------------------------------------------------- FETANetwork
\* FETAChoiceFunction.__init__: the threshold starts at 0.5.
DefaultThreshold == 1
FETAChoiceFunction_init(random_state) ==
    [kind |-> "feta", random_state |-> random_state,
     hidden_layers |-> 0, model |-> 0, scoring_model |-> 0,
     has_threshold |-> TRUE, threshold |-> DefaultThreshold, tuned |-> FALSE]

\* FETANetwork.fit: builds a new model and trains it.
FETANetwork_fit(w, X, Y, fail) ==
    IF fail = "convert" THEN Raise(w, "ConvertError", <<"fit">>)
    ELSE Only({
           LET id == w1.L.hidden_layers
               w2 == [w1 EXCEPT !.L.model = id]
               w3 == [w1 EXCEPT !.L.model = id,
                                !.wts[id] = Train(w1.wts[id], X, Y)]
           IN CASE fail = "train"      -> Raise(w2, "TrainError", <<"fit">>)
                [] fail = "train_late" -> Raise(w3, "TrainError", <<"fit">>)
                [] OTHER               -> Return(w3, 0, <<"fit">>)
           : w1 \in {construct_layers(w)} })

\* FETANetwork._predict_scores_fixed: the trained model's scores; there is
\* no model before the first fit built one.
FETANetwork_predict_scores_fixed(w, x) ==
    IF w.L.model = 0 THEN Raise(w, "AttributeError", <<"_predict_scores_fixed">>)
    ELSE Return(w, BatchScores(w.wts[w.L.model], x), <<"_predict_scores_fixed">>)

\* ---------------------------------------------------------- CmpNetCore
\* A CmpNet learner keeps its architecture (n_hidden, n_units), the layer
\* objects last made by _construct_layers (hidden_layers: their id in the
\* heap), the keras Model wrapping layer objects (model: the id of the layers
\* it was built from, 0 for None) and the content of hash_file (0: nothing
\* saved).  In the heap a layer set is [n_hidden, n_units, w].
HiddenChoices == {1, 2}
UnitChoices == {1, 2}
\* the architectures used: n_hidden and n_units differ
Architectures == {a \in HiddenChoices \X UnitChoices : a[1] # a[2]}
\* layer sets one learner may construct
MaxCmpLayers == 3

\* A setting of reg_strength, learning_rate or batch_size is a number;
\* DefaultSetting is what __init__ leaves.
DefaultSetting == 0

\* How fit's convert_instances behaves: the hook of CmpNetCore itself, or
\* the one a subclass supplies.
ConvertHooks == {"base", "subclass"}
CmpFailPoints == {"none", "train"}

\* _construct_layers: new layer objects of the current architecture, with
\* freshly initialised weights; the model is not touched.
CmpNetCore_construct_layers(w) ==
    [w EXCEPT !.wts = Append(w.wts, [n_hidden |-> w.L.n_hidden,
                                     n_units |-> w.L.n_units,
                                     w |-> InitialWeights]),
              !.L.hidden_layers = Len(w.wts) + 1]

\* __init__: model = None, then _construct_layers
CmpNetCore_init(n_hidden, n_units) ==
    CmpNetCore_construct_layers(
        [L |-> [kind |-> "cmpnet", n_hidden |-> n_hidden, n_units |-> n_units,
                hidden_layers |-> 0, model |-> 0, hash_file |-> 0,
                reg_strength |-> DefaultSetting, learning_rate |-> DefaultSetting,
                batch_size |-> DefaultSetting, extra |-> {}],
         wts |-> <<>>, rng |-> 0])

\* construct_model followed by Model(inputs, outputs): a model over the
\* layer objects the learner holds now
CmpNetCore_construct_model(w) == [w EXCEPT !.L.model = w.L.hidden_layers]

\* convert_instances of CmpNetCore: raise NotImplemented, which is a
\* TypeError since NotImplemented is not an exception
CmpNetCore_convert_instances(w, hook) ==
    IF hook = "base" THEN Raise(w, "TypeError", <<"convert_instances">>)
    ELSE Return(w, 0, <<"convert_instances">>)

\* fit: convert, build the model, train it in place.  The result also tells
\* the weights the training started from.
CmpNetCore_fit(w, X, Y, hook, fail) ==
    Only({ IF c.exc # NoExc THEN c @@ [started_from |-> InitialWeights]
           ELSE Only({
               IF fail = "train"
               THEN Raise(m, "TrainError", c.log \o <<"construct_model", "fit">>)
                        @@ [started_from |-> m.wts[m.L.model].w]
               ELSE Return([m EXCEPT !.wts[m.L.model].w =
                                         Train(m.wts[m.L.model].w, X, Y)],
                           0, c.log \o <<"construct_model", "fit">>)
                        @@ [started_from |-> m.wts[m.L.model].w]
               : m \in {CmpNetCore_construct_model(c.w)} })
           : c \in {CmpNetCore_convert_instances(w, hook)} })

\* ------------------------------------------------- the pairwise paths
\* most objects in an instance of the pairwise scoring runs
MaxObjects == 3

\* concatenate([u, v])
concatenate(u, v) == <<u, v>>

\* The hidden layers and the output node of a pairwise network with the
\* weights wt, applied to a concatenation: deterministic functions that are
\* not symmetric in the two halves of their input.
hidden(wt, u) == (wt + u[1] + 2 * u[2]) % 3
output_node(wt, m) == (wt + m[1] + 2 * m[2]) % 3

CmpNetCore_model_predict_unmirrored(wt, x1, x2) ==
    LET x1x2         == hidden(wt, concatenate(x1, x2))
        x2x1         == hidden(wt, concatenate(x2, x1))
        merged_left  == concatenate(x1x2, x2x1)
        merged_right == concatenate(x1x2, x2x1)
    IN [N_g |-> output_node(wt, merged_left),
        N_l |-> output_node(wt, merged_right)]
\* CmpNetCore.construct_model, as Model(inputs=[x1, x2]).predict evaluates
\* it on one pair: the outputs N_g and N_l
CmpNetCore_model_predict(wt, x1, x2) ==
    LET x1x2         == hidden(wt, concatenate(x1, x2))
        x2x1         == hidden(wt, concatenate(x2, x1))
        merged_left  == concatenate(x1x2, x2x1)
        merged_right == concatenate(x2x1, x1x2)
    IN [N_g |-> output_node(wt, merged_left),
        N_l |-> output_node(wt, merged_right)]

\* the pairwise network on the pair (a, b): column 0 of the model's output
PairNet(wt, a, b) == CmpNetCore_model_predict(wt, a, b).N_g

permutations_ascending(n) ==
    LET RECURSIVE LoopAscending(_, _, _)
        LoopAscending(i, j, acc) ==
            IF i >= n THEN acc
            ELSE IF j >= n THEN LoopAscending(i + 1, 0, acc)
            ELSE LoopAscending(i, j + 1, IF i < j THEN Append(acc, <<i, j>>) ELSE acc)
    IN LoopAscending(0, 0, <<>>)
\* itertools.permutations(range(n), 2): the index pairs (i, j), i # j, in
\* lexicographic order (indices from 0)
permutations(n) ==
    LET RECURSIVE Loop(_, _, _)
        Loop(i, j, acc) ==
            IF i >= n THEN acc
            ELSE IF j >= n THEN Loop(i + 1, 0, acc)
            ELSE Loop(i, j + 1, IF i # j THEN Append(acc, <<i, j>>) ELSE acc)
    IN Loop(0, 0, <<>>)

\* A slot of np.empty that was never written, the network's output on it
\* and a mean that includes such an output: indeterminate values.
Unwritten == <<-1, -1>>
Indeterminate == -1
IndeterminateMean == [sum |-> -1, count |-> -1]

\* np.empty((n2, 2, n_features))
np_empty(n2) == [k \in 1..n2 |-> Unwritten]

\* for k, (i, j) in enumerate(permutations(range(n_objects), 2)):
\*     pairs[k] = (X[n, i], X[n, j])
FillPairs(pairs, xn, perm) ==
    [k \in 1..Len(pairs) |->
        IF k <= Len(perm) THEN <<xn[perm[k][1] + 1], xn[perm[k][2] + 1]>>
        ELSE pairs[k]]

\* predict_pair(pairs[:, 0], pairs[:, 1])[:, 0]
predict_pair(wt, pairs) ==
    [k \in 1..Len(pairs) |->
        IF pairs[k] = Unwritten THEN Indeterminate
        ELSE PairNet(wt, pairs[k][1], pairs[k][2])]

\* .mean(axis=1): the mean of a row as its sum and the number of entries
\* (count 0: nan)
mean_axis1(rows) ==
    [i \in 1..Len(rows) |->
        IF \E c \in 1..Len(rows[i]) : rows[i][c] = Indeterminate
        THEN IndeterminateMean
        ELSE [sum |-> SumSeq(rows[i]), count |-> Len(rows[i])]]

\* The loop over the instances of X: the scores, and the index pairs each
\* instance enumerated.
RECURSIVE PairwiseLoop(_, _, _, _, _, _)
PairwiseLoop(wt, X, n, pairs, scores, enumerated) ==
    IF n > Len(X) THEN [scores |-> scores, enumerated |-> enumerated]
    ELSE LET n_objects == Len(X[n])
             perm      == permutations(n_objects)
             filled    == FillPairs(pairs, X[n], perm)
             result    == predict_pair(wt, filled)
         IN PairwiseLoop(wt, X, n + 1, filled,
                Append(scores,
                       mean_axis1(reshape(result, n_objects, n_objects - 1))),
                Append(enumerated, perm))

\* the pairwise part shared by CmpNetCore._predict_scores_fixed and
\* FETADiscreteChoiceFunction._predict_scores_using_pairs
PairwiseScores(wt, X) ==
    LET n_objects == Len(X[1])
    IN PairwiseLoop(wt, X, 1, np_empty(n_objects * (n_objects - 1)), <<>>, <<>>)

\* _predict_scores_fixed: the score of an object is the mean of the model's
\* output over the pairs it forms with every other object of its instance.
CmpNetCore_predict_scores_fixed(w, x) ==
    IF w.L.model = 0
    THEN Raise(w, "AttributeError", <<"_predict_scores_fixed">>)
    ELSE Return(w, PairwiseScores(w.wts[w.L.model].w, x).scores,
                <<"_predict_scores_fixed">>)

\* FETANetwork._predict_pair(a, b, only_pairwise=True)[:, 0]
FETANetwork_predict_pair(wt, pairs) == predict_pair(wt, pairs)

\* Activation("sigmoid") and numpy_util.sigmoid, kept symbolic: the value
\* written as the sigmoid of its argument
sigmoid(v) == [sigmoid |-> v]

\* the weighted_sum unit (a trained Dense(1, activation="sigmoid")) on a
\* concatenation of a first-order and a zeroth-order score, kept symbolic
weighted_sum(c) == [weighted_sum |-> c]

\* a unit with activation="linear", kept symbolic like the sigmoid
linear(v) == [linear |-> v]

\* output_node_zeroth over hidden_layers_zeroth on one object
zeroth_output(wt, x) == linear((2 * wt + x + 1) % 3)

\* _create_zeroth_order_model, evaluated on one object
FETADiscreteChoiceFunction_create_zeroth_order_model(wt, x) ==
    sigmoid(zeroth_output(wt, x))

\* FETANetwork.zero_order_model: the model _create_zeroth_order_model gives
FETANetwork_zero_order_model(wt, x) ==
    FETADiscreteChoiceFunction_create_zeroth_order_model(wt, x)

\* _create_weighted_model(n_objects).predict([s1, s2]) on one instance
FETADiscreteChoiceFunction_create_weighted_model(s1, s2) ==
    [i \in 1..Len(s1) |-> weighted_sum(concatenate(s1[i], s2[i]))]

\* FETADiscreteChoiceFunction._predict_scores_using_pairs: the mean of the
\* pairwise scores, then the weighted model over it and the zeroth-order
\* model's scores, or its sigmoid
FETADiscreteChoiceFunction_predict_scores_using_pairs(wt, X, add_zeroth_order_model) ==
    LET r == PairwiseScores(wt, X)
        scores_zero == [n \in 1..Len(X) |-> [i \in 1..Len(X[n]) |->
                           FETANetwork_zero_order_model(wt, X[n][i])]]
    IN [scores |->
          IF add_zeroth_order_model
          THEN [n \in 1..Len(X) |->
                   FETADiscreteChoiceFunction_create_weighted_model(
                       r.scores[n], scores_zero[n])]
          ELSE [n \in 1..Len(X) |-> [i \in 1..Len(X[n]) |->
                   sigmoid(r.scores[n][i])]],
        enumerated |-> r.enumerated]

\* itertools.combinations(range(n), 2): the index pairs i < j in
\* lexicographic order (indices from 0)
combinations(n) ==
    LET RECURSIVE LoopCombinations(_, _, _)
        LoopCombinations(i, j, acc) ==
            IF i >= n THEN acc
            ELSE IF j >= n THEN LoopCombinations(i + 1, i + 2, acc)
            ELSE LoopCombinations(i, j + 1, Append(acc, <<i, j>>))
    IN LoopCombinations(0, 1, <<>>)

\* The pairwise sub-network of the training graph on (x1, x2): the shared
\* hidden layers on both concatenations, the shared output node on both
\* merges.
FETADiscreteChoiceFunction_pair(wt, x1, x2) ==
    LET x1x2         == hidden(wt, concatenate(x1, x2))
        x2x1         == hidden(wt, concatenate(x2, x1))
        merged_left  == concatenate(x1x2, x2x1)
        merged_right == concatenate(x2x1, x1x2)
    IN [N_g |-> output_node(wt, merged_left),
        N_l |-> output_node(wt, merged_right)]

\* An entry of the pairwise matrix: the output val, which output of which
\* combination it is, and the layers that computed it.
MatrixEntry(out, comb, val, wt) ==
    [out |-> out, comb |-> comb, val |-> val, layers |-> wt]

RECURSIVE PairwiseMatrix_crossed(_, _, _, _, _)
PairwiseMatrix_crossed(wt, x, combs, k, outputs) ==
    IF k > Len(combs) THEN outputs
    ELSE LET i == combs[k][1] + 1
             j == combs[k][2] + 1
             p == FETADiscreteChoiceFunction_pair(wt, x[i], x[j])
         IN PairwiseMatrix_crossed(wt, x, combs, k + 1,
                [outputs EXCEPT
                    ![i] = Append(@, MatrixEntry("N_l", combs[k], p.N_l, wt)),
                    ![j] = Append(@, MatrixEntry("N_g", combs[k], p.N_g, wt))])
\* for i, j in combinations(range(n_objects_fit_), 2):
\*     outputs[i].append(N_g); outputs[j].append(N_l)
RECURSIVE PairwiseMatrix(_, _, _, _, _)
PairwiseMatrix(wt, x, combs, k, outputs) ==
    IF k > Len(combs) THEN outputs
    ELSE LET i == combs[k][1] + 1
             j == combs[k][2] + 1
             p == FETADiscreteChoiceFunction_pair(wt, x[i], x[j])
         IN PairwiseMatrix(wt, x, combs, k + 1,
                [outputs EXCEPT
                    ![i] = Append(@, MatrixEntry("N_g", combs[k], p.N_g, wt)),
                    ![j] = Append(@, MatrixEntry("N_l", combs[k], p.N_l, wt))])

\* K.mean(s, axis=1) of a row of the pairwise matrix
K_mean(row) ==
    [sum |-> SumSeq([c \in 1..Len(row) |-> row[c].val]), count |-> Len(row)]

\* construct_model, as the trained model evaluates it on one instance x of
\* n_objects_fit_ objects: the rows of the pairwise matrix and the scores
FETADiscreteChoiceFunction_construct_model(wt, x, add_zeroth_order_model) ==
    LET n_objects_fit == Len(x)
        zeroth_order_scores ==
            [i \in 1..n_objects_fit |-> zeroth_output(wt, x[i])]
        outputs == PairwiseMatrix(wt, x, combinations(n_objects_fit), 1,
                                  [i \in 1..n_objects_fit |-> <<>>])
        scores  == [i \in 1..n_objects_fit |-> K_mean(outputs[i])]
    IN [rows |-> outputs,
        scores |->
          IF add_zeroth_order_model
          THEN [i \in 1..n_objects_fit |->
                   weighted_sum(concatenate(scores[i], zeroth_order_scores[i]))]
          ELSE [i \in 1..n_objects_fit |-> sigmoid(scores[i])]]

\* The weights of a layer set whose session was cleared: its variables are
\* gone with the graph they lived in.
Released == -1

\* self.model.save_weights(self.hash_file)
save_weights(w) == [w EXCEPT !.L.hash_file = w.wts[w.L.model]]

\* K.clear_session(); K.set_session(tf.Session())
clear_session(w) ==
    [w EXCEPT !.wts = [k \in 1..Len(w.wts) |-> [w.wts[k] EXCEPT !.w = Released]]]

\* self.model.load_weights(self.hash_file): the file's weights go into the
\* model's layers when the file was written by a model of the same layers
load_weights(w) ==
    LET file == w.L.hash_file
        into == w.wts[w.L.model]
    IN IF file.n_hidden = into.n_hidden /\ file.n_units = into.n_units
       THEN Return([w EXCEPT !.wts[w.L.model].w = file.w], 0, <<"load_weights">>)
       ELSE Raise(w, "ValueError", <<"load_weights">>)

\* What a clear_memory call went through: the model's layer set before the
\* call, the file's content after the save and when the load read it.
ClearMemoryTrace(before, saved, at_load) ==
    [before |-> before, saved |-> saved, at_load |-> at_load]

CmpNetCore_clear_memory_saving_late(w) ==
    IF w.L.model = 0 THEN Raise(w, "AttributeError", <<>>)
    ELSE Only({ Only({ Only({
        [ld EXCEPT !.val = ClearMemoryTrace(w.wts[w.L.model], s1.L.hash_file,
                                            s4.L.hash_file),
                   !.log = <<"clear_session", "save_weights",
                             "_construct_layers", "construct_model">> \o ld.log]
        : ld \in {load_weights(s4)} })
        : s4 \in {CmpNetCore_construct_model(CmpNetCore_construct_layers(s1))} })
        : s1 \in {save_weights(clear_session(w))} } )
\* clear_memory: save the model's weights, clear the session, rebuild
\* layers and model, load the saved weights into the new model
CmpNetCore_clear_memory(w) ==
    IF w.L.model = 0 THEN Raise(w, "AttributeError", <<>>)
    ELSE Only({ Only({ Only({
        [ld EXCEPT !.val = ClearMemoryTrace(w.wts[w.L.model], s1.L.hash_file,
                                            s4.L.hash_file),
                   !.log = <<"save_weights", "clear_session",
                             "_construct_layers", "construct_model">> \o ld.log]
        : ld \in {load_weights(s4)} })
        : s4 \in {CmpNetCore_construct_model(CmpNetCore_construct_layers(
                     clear_session(s1)))} })
        : s1 \in {save_weights(w)} } )

\* The values set_tunable_parameters is called with.
TunablePoints ==
    { [n_hidden |-> a[1], n_units |-> a[2], reg_strength |-> g,
       learning_rate |-> g + 1, batch_size |-> g + 2]
      : a \in Architectures, g \in {1, 4} }
\* **point: the keyword arguments set_tunable_parameters does not know
UnsupportedPoints == { <<>>, <<"n_epoch">>, <<"n_epoch", "colour">> }

\* what logger.warning is called with: the keys of point, if any
Warned(point) == {point[i] : i \in 1..Len(point)}

CmpNetCore_set_tunable_parameters_storing(w, p, point) ==
    Return(CmpNetCore_construct_layers(
               [w EXCEPT !.L.n_hidden = p.n_hidden, !.L.n_units = p.n_units,
                         !.L.reg_strength = p.reg_strength,
                         !.L.batch_size = p.batch_size,
                         !.L.learning_rate = p.learning_rate,
                         !.L.extra = Warned(point)]),
           0, <<"_construct_layers">>
              \o (IF Len(point) > 0 THEN <<"logger.warning">> ELSE <<>>))
        @@ [warned |-> Warned(point)]
\* set_tunable_parameters: the five parameters, a new optimizer with the
\* learning rate, new layers; a warning when point is not empty
CmpNetCore_set_tunable_parameters(w, p, point) ==
    Return(CmpNetCore_construct_layers(
               [w EXCEPT !.L.n_hidden = p.n_hidden, !.L.n_units = p.n_units,
                         !.L.reg_strength = p.reg_strength,
                         !.L.batch_size = p.batch_size,
                         !.L.learning_rate = p.learning_rate]),
           0, <<"_construct_layers">>
              \o (IF Len(point) > 0 THEN <<"logger.warning">> ELSE <<>>))
        @@ [warned |-> Warned(point)]

\* ------------------------------------------------------------- Learner
\* self._predict_scores_fixed, by the learner's class
predict_scores_fixed(w, x) ==
    IF w.L.kind = "ranknet" THEN RankNetCore_predict_scores_fixed(w, x)
    ELSE IF w.L.kind = "cmpnet" THEN CmpNetCore_predict_scores_fixed(w, x)
    ELSE FETANetwork_predict_scores_fixed(w, x)

\* for ranking_size, x in X.items(): scores[ranking_size] = ...
RECURSIVE ScoreItems(_, _, _, _, _)
ScoreItems(w, items, k, acc, log) ==
    IF k > Len(items) THEN Return(w, Dict(acc), log)
    ELSE Only({ IF r.exc # NoExc THEN Raise(r.w, r.exc, log \o r.log)
                ELSE ScoreItems(r.w, items, k + 1,
                                Append(acc, [key |-> items[k].key, x |-> r.val]),
                                log \o r.log)
                : r \in {predict_scores_fixed(w, items[k].x)} })

Learner_predict_scores_overwriting(w, X) ==
    IF X.dict
    THEN Only({ IF r.exc # NoExc THEN r
                ELSE Return(r.w, Arr(r.val.items[Len(r.val.items)].x), r.log)
                : r \in {ScoreItems(w, X.items, 1, <<>>, <<>>)} })
    ELSE Only({ IF r.exc # NoExc THEN r ELSE Return(r.w, Arr(r.val), r.log)
                : r \in {predict_scores_fixed(w, X.batch)} })
\* Learner.predict_scores
Learner_predict_scores(w, X) ==
    IF X.dict THEN ScoreItems(w, X.items, 1, <<>>, <<>>)
    ELSE Only({ IF r.exc # NoExc THEN r ELSE Return(r.w, Arr(r.val), r.log)
                : r \in {predict_scores_fixed(w, X.batch)} })

\* ChoiceFunctions.predict_for_scores: scores > threshold for every object,
\* with the default threshold while none is set.
ChoiceFunctions_predict_for_scores(w, S) ==
    LET t == IF w.L.has_threshold THEN w.L.threshold ELSE DefaultThreshold
    IN IF S.dict
       THEN Return(w, Dict([k \in 1..Len(S.items) |->
                        [key |-> S.items[k].key, x |-> Greater(S.items[k].x, t)]]),
                   <<"predict_for_scores">>)
       ELSE Return(w, Arr(Greater(S.batch, t)), <<"predict_for_scores">>)

Learner_predict_rescoring(w, X) ==
    Only({ IF r.exc # NoExc THEN r
           ELSE Only({ Return(d.w, d.val, r.log \o r2.log \o d.log)
                       : d \in {ChoiceFunctions_predict_for_scores(r2.w, r2.val)} })
           : r \in {Learner_predict_scores(w, X)},
             r2 \in {Learner_predict_scores(w, X)} })
\* Learner.predict
Learner_predict(w, X) ==
    Only({ IF r.exc # NoExc THEN r
           ELSE Only({ Return(d.w, d.val, r.log \o d.log)
                       : d \in {ChoiceFunctions_predict_for_scores(r.w, r.val)} })
           : r \in {Learner_predict_scores(w, X)} })

\* --------------------------------------------------- FETAChoiceFunction
\* FETAChoiceFunction.predict_scores: super().predict_scores
FETAChoiceFunction_predict_scores(w, X) == Learner_predict_scores(w, X)

FETAChoiceFunction_predict_nonstrict(w, X) ==
    Only({ IF r.exc # NoExc THEN r
           ELSE IF r.val.dict THEN Raise(r.w, "TypeError", r.log)
           ELSE Return(r.w, Arr(GreaterOrEqual(r.val.batch, r.w.L.threshold)), r.log)
           : r \in {FETAChoiceFunction_predict_scores(w, X)} })
\* FETAChoiceFunction.predict: scores > self.threshold; a dict of scores
\* does not compare with a float.
FETAChoiceFunction_predict(w, X) ==
    Only({ IF r.exc # NoExc THEN r
           ELSE IF r.val.dict THEN Raise(r.w, "TypeError", r.log)
           ELSE Return(r.w, Arr(Greater(r.val.batch, r.w.L.threshold)), r.log)
           : r \in {FETAChoiceFunction_predict_scores(w, X)} })

\* -------------------------------------------------------- by the class
predict_scores(w, X) ==
    IF w.L.kind = "ranknet" THEN Learner_predict_scores(w, X)
    ELSE FETAChoiceFunction_predict_scores(w, X)

predict(w, X) ==
    IF w.L.kind = "ranknet" THEN Learner_predict(w, X)
    ELSE FETAChoiceFunction_predict(w, X)

\* self.threshold = t
SetThreshold(w, t, tuned) ==
    [w EXCEPT !.L.threshold = t, !.L.has_threshold = TRUE, !.L.tuned = tuned]

FETAChoiceFunction_tune_threshold_assigning(w, X_val, Y_val, thin) ==
    Only({ IF r.exc # NoExc
           THEN Raise(r.w, r.exc, <<"_tune_threshold">> \o r.log)
           ELSE Only({ Return(SetThreshold(r.w, t, TRUE), t,
                              <<"_tune_threshold">> \o r.log)
                       : t \in {ThresholdScan(r.val.batch, Y_val, thin).threshold} })
           : r \in {FETAChoiceFunction_predict_scores(w, Arr(X_val))} })
\* FETAChoiceFunction._tune_threshold: the validation scores, then the scan;
\* it returns the threshold and assigns nothing.
FETAChoiceFunction_tune_threshold(w, X_val, Y_val, thin) ==
    Only({ IF r.exc # NoExc
           THEN Raise(r.w, r.exc, <<"_tune_threshold">> \o r.log)
           ELSE Return(r.w, ThresholdScan(r.val.batch, Y_val, thin).threshold,
                       <<"_tune_threshold">> \o r.log)
           : r \in {FETAChoiceFunction_predict_scores(w, Arr(X_val))} })

\* ChoiceFunctions._tune_threshold, which RankNetChoiceFunction inherits: the
\* same scan over the scores of self.predict_scores(X_val).
ChoiceFunctions_tune_threshold(w, X_val, Y_val, thin) ==
    Only({ IF r.exc # NoExc
           THEN Raise(r.w, r.exc, <<"_tune_threshold">> \o r.log)
           ELSE Return(r.w, ThresholdScan(r.val.batch, Y_val, thin).threshold,
                       <<"_tune_threshold">> \o r.log)
           : r \in {Learner_predict_scores(w, Arr(X_val))} })

tune_threshold(w, X_val, Y_val, thin) ==
    IF w.L.kind = "ranknet" THEN ChoiceFunctions_tune_threshold(w, X_val, Y_val, thin)
    ELSE FETAChoiceFunction_tune_threshold(w, X_val, Y_val, thin)

\* ----------------------------------------------------------------- fit
\* What a fit call leaves: the result, and the arguments super().fit got.
FitResult(r, called, X, Y) ==
    [w |-> r.w, val |-> r.val, exc |-> r.exc, log |-> r.log,
     trained_on |-> [called |-> called, X |-> X, Y |-> Y]]

RankNetChoiceFunction_fit_tuned_no_finally(w, X, Y, tune_size, thin, fail) ==
    Only({ Only({
        IF r1.exc # NoExc
        THEN FitResult(Raise(r1.w, r1.exc, <<"train_test_split">> \o r1.log),
                       TRUE, sp.X_train, sp.Y_train)
        ELSE Only({
            IF r2.exc # NoExc
            THEN FitResult(Raise(r2.w, r2.exc,
                                 <<"train_test_split">> \o r1.log \o r2.log),
                           TRUE, sp.X_train, sp.Y_train)
            ELSE FitResult(Return(SetThreshold(r2.w, r2.val, TRUE), 0,
                                  <<"train_test_split">> \o r1.log \o r2.log
                                      \o <<"set_threshold">>),
                           TRUE, sp.X_train, sp.Y_train)
            : r2 \in {ChoiceFunctions_tune_threshold(r1.w, sp.X_val, sp.Y_val, thin)} })
        : r1 \in {RankNetCore_fit([w EXCEPT !.rng = sp.rng],
                                  sp.X_train, sp.Y_train, fail)} })
        : sp \in {train_test_split(X, Y, tune_size, w.L.random_state, w.rng)} })
\* RankNetChoiceFunction.fit with tune_size > 0: split, train, and tune the
\* threshold in the finally clause.  An exception raised in the finally
\* clause replaces the one training raised.
RankNetChoiceFunction_fit_tuned(w, X, Y, tune_size, thin, fail) ==
    Only({ Only({ Only({
        LET log == <<"train_test_split">> \o r1.log \o r2.log
            l4  == log \o <<"set_threshold">>
            w4  == SetThreshold(r2.w, r2.val, TRUE)
        IN IF r2.exc # NoExc
           THEN FitResult(Raise(r2.w, r2.exc, log), TRUE, sp.X_train, sp.Y_train)
           ELSE IF r1.exc # NoExc
           THEN FitResult(Raise(w4, r1.exc, l4), TRUE, sp.X_train, sp.Y_train)
           ELSE FitResult(Return(w4, 0, l4), TRUE, sp.X_train, sp.Y_train)
        : r2 \in {ChoiceFunctions_tune_threshold(r1.w, sp.X_val, sp.Y_val, thin)} })
        : r1 \in {RankNetCore_fit([w EXCEPT !.rng = sp.rng],
                             sp.X_train, sp.Y_train, fail)} })
        : sp \in {train_test_split(X, Y, tune_size, w.L.random_state, w.rng)} })

RankNetChoiceFunction_fit_untuned_keeps(w, X, Y, fail) ==
    Only({ IF r1.exc # NoExc THEN FitResult(r1, TRUE, X, Y)
           ELSE FitResult(Return(r1.w, 0, r1.log \o <<"set_threshold">>),
                          TRUE, X, Y)
           : r1 \in {RankNetCore_fit(w, X, Y, fail)} })
\* RankNetChoiceFunction.fit with tune_size = 0: train on the whole batch, then
\* the threshold is 0.5.
RankNetChoiceFunction_fit_untuned(w, X, Y, fail) ==
    Only({ IF r1.exc # NoExc THEN FitResult(r1, TRUE, X, Y)
           ELSE FitResult(Return(SetThreshold(r1.w, DefaultThreshold, FALSE), 0,
                                 r1.log \o <<"set_threshold">>), TRUE, X, Y)
           : r1 \in {RankNetCore_fit(w, X, Y, fail)} })

\* RankNetChoiceFunction.fit
RankNetChoiceFunction_fit(w, X, Y, tune_size, thin, fail) ==
    IF tune_size > 0
    THEN RankNetChoiceFunction_fit_tuned(w, X, Y, tune_size, thin, fail)
    ELSE RankNetChoiceFunction_fit_untuned(w, X, Y, fail)

\* FETAChoiceFunction.fit with tune_size > 0: split, train, and tune the
\* threshold in the finally clause.  An exception raised in the finally
\* clause replaces the one training raised.
FETAChoiceFunction_fit_tuned(w, X, Y, tune_size, thin, fail) ==
    Only({ Only({ Only({
        LET log == <<"train_test_split">> \o r1.log \o r2.log
            l4  == log \o <<"set_threshold">>
            w4  == SetThreshold(r2.w, r2.val, TRUE)
        IN IF r2.exc # NoExc
           THEN FitResult(Raise(r2.w, r2.exc, log), TRUE, sp.X_train, sp.Y_train)
           ELSE IF r1.exc # NoExc
           THEN FitResult(Raise(w4, r1.exc, l4), TRUE, sp.X_train, sp.Y_train)
           ELSE FitResult(Return(w4, 0, l4), TRUE, sp.X_train, sp.Y_train)
        : r2 \in {FETAChoiceFunction_tune_threshold(r1.w, sp.X_val, sp.Y_val, thin)} })
        : r1 \in {FETANetwork_fit([w EXCEPT !.rng = sp.rng],
                             sp.X_train, sp.Y_train, fail)} })
        : sp \in {train_test_split(X, Y, tune_size, 0, w.rng)} })

FETAChoiceFunction_fit_untuned_keeps(w, X, Y, fail) ==
    Only({ IF r1.exc # NoExc THEN FitResult(r1, TRUE, X, Y)
           ELSE FitResult(Return(r1.w, 0, r1.log \o <<"set_threshold">>),
                          TRUE, X, Y)
           : r1 \in {FETANetwork_fit(w, X, Y, fail)} })
\* FETAChoiceFunction.fit with tune_size = 0: train on the whole batch, then
\* the threshold is 0.5.
FETAChoiceFunction_fit_untuned(w, X, Y, fail) ==
    Only({ IF r1.exc # NoExc THEN FitResult(r1, TRUE, X, Y)
           ELSE FitResult(Return(SetThreshold(r1.w, DefaultThreshold, FALSE), 0,
                                 r1.log \o <<"set_threshold">>), TRUE, X, Y)
           : r1 \in {FETANetwork_fit(w, X, Y, fail)} })

\* FETAChoiceFunction.fit
FETAChoiceFunction_fit(w, X, Y, tune_size, thin, fail) ==
    IF tune_size > 0
    THEN FETAChoiceFunction_fit_tuned(w, X, Y, tune_size, thin, fail)
    ELSE FETAChoiceFunction_fit_untuned(w, X, Y, fail)

fit(w, X, Y, tune_size, thin, fail) ==
    IF w.L.kind = "ranknet"
    THEN RankNetChoiceFunction_fit(w, X, Y, tune_size, thin, fail)
    ELSE FETAChoiceFunction_fit(w, X, Y, tune_size, thin, fail)

\* ------------------------------------------------------------- actions
NotTrained == [called |-> FALSE, X |-> <<>>, Y |-> <<>>]

\* The outcome of a call, as its caller sees it.
Outcome(op, arg, r, trained_on) ==
    [op |-> op, arg |-> arg, exc |-> r.exc, val |-> r.val, log |-> r.log,
     trained_on |-> trained_on]

Leaves(w) ==
    /\ learner' = w.L
    /\ weights' = w.wts
    /\ np_random' = w.rng

Init ==
    /\ learner \in {RankNetChoiceFunction_init(rs) : rs \in RandomStates}
                   \cup {FETAChoiceFunction_init(rs) : rs \in RandomStates}
    /\ weights = <<>>
    /\ np_random \in RngStates
    /\ ret = [op |-> "__init__", arg |-> 0, exc |-> NoExc, val |-> 0,
              log |-> <<>>, trained_on |-> NotTrained]
    /\ tune_in = 0 /\ tune_out = NotCalled
    /\ NoDatabase

\* learner.fit(X, Y, tune_size=..., thin_thresholds=...)
Fit ==
    \E b \in Batches, tune_size \in 0..MaxTune, thin \in 1..MaxThin,
       fail \in FailPoints :
        /\ Len(weights) < MaxLayers
        /\ \E r \in {fit(World, b.X, b.Y, tune_size, thin, fail)} :
              /\ Leaves(r.w)
              /\ ret' = Outcome("fit",
                                [batch |-> b, tune_size |-> tune_size,
                                 thin |-> thin, fail |-> fail],
                                r, r.trained_on)
        /\ UNCHANGED <<tuneVars, dbVars>>

\* learner.predict_scores(X)
PredictScores ==
    \E X \in PredictInputs :
        \E r \in {predict_scores(World, X)} :
           /\ Leaves(r.w)
           /\ ret' = Outcome("predict_scores", X, r, NotTrained)
           /\ UNCHANGED <<tuneVars, dbVars>>

\* learner.predict(X)
Predict ==
    \E X \in PredictInputs :
        \E r \in {predict(World, X)} :
           /\ Leaves(r.w)
           /\ ret' = Outcome("predict", X, r, NotTrained)
           /\ UNCHANGED <<tuneVars, dbVars>>

\* learner(X): __call__ returns self.predict(X)
Call ==
    \E X \in PredictInputs :
        \E r \in {predict(World, X)} :
           /\ Leaves(r.w)
           /\ ret' = Outcome("__call__", X, r, NotTrained)
           /\ UNCHANGED <<tuneVars, dbVars>>

\* learner._tune_threshold(X_val, Y_val, thin_thresholds)
TuneThreshold ==
    \E b \in Batches, thin \in 1..MaxThin :
        \E r \in {tune_threshold(World, b.X, b.Y, thin)} :
           /\ Leaves(r.w)
           /\ ret' = Outcome("_tune_threshold", [batch |-> b, thin |-> thin],
                             r, NotTrained)
           /\ UNCHANGED <<tuneVars, dbVars>>

Next == Fit \/ PredictScores \/ Predict \/ Call \/ TuneThreshold

Spec == Init /\ [][Next]_vars

\* ------------------------------------------------- a CmpNet learner's life
CmpOutcome(op, arg, r, started_from) ==
    [op |-> op, arg |-> arg, exc |-> r.exc, val |-> r.val, log |-> r.log,
     started_from |-> started_from]

InitCmp ==
    /\ \E a \in Architectures :
         \E w \in {CmpNetCore_init(a[1], a[2])} :
            /\ learner = w.L
            /\ weights = w.wts
            /\ np_random = w.rng
    /\ ret = CmpOutcome("__init__", 0, Return(0, 0, <<>>), InitialWeights)
    /\ tune_in = 0
    /\ tune_out = NotCalled
    /\ NoDatabase

\* learner.fit(X, Y)
CmpFit ==
    \E b \in Batches, hook \in ConvertHooks, fail \in CmpFailPoints :
        \E r \in {CmpNetCore_fit(World, b.X, b.Y, hook, fail)} :
           /\ Leaves(r.w)
           /\ ret' = CmpOutcome("fit", [batch |-> b, hook |-> hook, fail |-> fail],
                                r, r.started_from)
           /\ UNCHANGED <<tuneVars, dbVars>>

\* learner.predict_scores(X)
CmpPredictScores ==
    \E X \in PredictInputs :
        \E r \in {Learner_predict_scores(World, X)} :
           /\ Leaves(r.w)
           /\ ret' = CmpOutcome("predict_scores", X, r, InitialWeights)
           /\ UNCHANGED <<tuneVars, dbVars>>

\* learner.set_tunable_parameters(n_hidden, ..., batch_size, **point)
CmpSetTunableParameters ==
    /\ Len(weights) < MaxCmpLayers
    /\ \E p \in TunablePoints, point \in UnsupportedPoints :
        \E r \in {CmpNetCore_set_tunable_parameters(World, p, point)} :
           /\ Leaves(r.w)
           /\ ret' = CmpOutcome("set_tunable_parameters",
                                [p |-> p, point |-> point], r, InitialWeights)
                       @@ [warned |-> r.warned]
           /\ UNCHANGED <<tuneVars, dbVars>>

\* learner.clear_memory()
CmpClearMemory ==
    /\ Len(weights) < MaxCmpLayers
    /\ \E r \in {CmpNetCore_clear_memory(World)} :
           /\ Leaves(r.w)
           /\ ret' = CmpOutcome("clear_memory", 0, r, InitialWeights)
           /\ UNCHANGED <<tuneVars, dbVars>>

NextCmp == CmpFit \/ CmpPredictScores \/ CmpSetTunableParameters \/ CmpClearMemory

SpecCmp == InitCmp /\ [][NextCmp]_vars

\* =================================================================
\* Constructing learners: keyword arguments and abstract methods.
\* =================================================================
\* most keyword arguments given to one constructor call
MaxKwargs == 2

\* A keyword argument name, split at its namespace prefix ("" for none).
Key(prefix, name) == [prefix |-> prefix, name |-> name]
KwargKeys ==
    { Key("", "use_bias"), Key("optimizer__", "lr"),
      Key("", "colour"), Key("", "n_epoch") }

\* csrank.constants.allowed_dense_kwargs: the options of keras' Dense
allowed_dense_kwargs == { Key("", "use_bias") }
\* the prefixes FETADiscreteChoiceFunction.__init__ allows
AllowedPrefixes == {"optimizer__", "kernel_regularizer__", "hidden_dense_layer__"}

\* **kwargs: keys in the order they were given, none twice
KwargLists ==
    UNION { {q \in [1..n -> KwargKeys] : \A i, j \in 1..n : q[i] = q[j] => i = j}
            : n \in 0..MaxKwargs }

Range(q) == {q[i] : i \in 1..Len(q)}
InList(k, S) == k \in S

\* An object after __init__: what self.kwargs keeps and which keyword
\* arguments became attributes of the object.
NewObject(kind, kept, attrs) == [kind |-> kind, attrs |-> attrs, kwargs |-> kept]
\* no object: __init__ raised
NoObject == [kind |-> "none"]

\* What a constructor call leaves: the object, the exception, the key the
\* exception's message names.
Constructed(obj) == [L |-> obj, exc |-> NoExc, named |-> {}]
Rejected(exc, key) == [L |-> NoObject, exc |-> exc, named |-> {key}]

\* for key in keys: if key not in allowed_dense_kwargs: del kwargs[key]
\* self.kwargs = kwargs
FilterDenseKwargs(kwargs) == {k \in Range(kwargs) : InList(k, allowed_dense_kwargs)}

\* RankNetCore.__init__(**kwargs)
RankNetCore_new(kwargs) ==
    Constructed(NewObject("ranknet", FilterDenseKwargs(kwargs), {}))

\* CmpNetCore.__init__(**kwargs)
CmpNetCore_new(kwargs) ==
    Constructed(NewObject("cmpnet", FilterDenseKwargs(kwargs), {}))

\* key.startswith(prefix) for some allowed prefix
starts_with_legal_prefix(key, allowed_prefixes) == key.prefix \in allowed_prefixes

\* Learner._store_kwargs: TypeError for the first key without a legal
\* prefix, else vars(self).update(kwargs)
Learner_store_kwargs(kind, kwargs, allowed_prefixes) ==
    LET bad == {i \in 1..Len(kwargs) :
                   ~starts_with_legal_prefix(kwargs[i], allowed_prefixes)}
    IN IF bad # {}
       THEN Rejected("TypeError", kwargs[CHOOSE i \in bad : \A j \in bad : i <= j])
       ELSE Constructed(NewObject(kind, {}, Range(kwargs)))

\* FETADiscreteChoiceFunction.__init__(**kwargs): _store_kwargs, then
\* super().__init__ without the keyword arguments
FETADiscreteChoiceFunction_new(kwargs) ==
    Learner_store_kwargs("feta_dc", kwargs, AllowedPrefixes)

\* ------------------------------------------------- subclasses of Learner
\* The methods Learner declares with @abstractmethod, and the hook it
\* declares without.
AbstractMethods == {"fit", "_predict_scores_fixed"}
HookMethods == {"predict_for_scores"}
\* How a subclass provides a method: not at all, with a body of its own, or
\* with a body that calls the one of Learner.
Provisions == {"absent", "own", "super"}
Variants == [AbstractMethods \cup HookMethods -> Provisions]

\* class V(Learner): ... -- defining (importing) the class runs no check
Learner_subclass_define(impl) ==
    [L |-> [kind |-> "variant", impl |-> impl, constructed |-> FALSE],
     exc |-> NoExc, named |-> {}]

Learner_subclass_new_unchecked(cls) ==
    [L |-> [cls EXCEPT !.constructed = TRUE], exc |-> NoExc, named |-> {}]
\* V(): ABCMeta refuses to instantiate a class with abstract methods left
Learner_subclass_new(cls) ==
    IF \E m \in AbstractMethods : cls.impl[m] = "absent"
    THEN [L |-> cls, exc |-> "TypeError",
          named |-> {m \in AbstractMethods : cls.impl[m] = "absent"}]
    ELSE [L |-> [cls EXCEPT !.constructed = TRUE], exc |-> NoExc, named |-> {}]

\* obj.m(...): the subclass' body, or the body in Learner, which raises
\* NotImplementedError
Learner_subclass_call(obj, m) ==
    IF obj.impl[m] = "own"
    THEN [L |-> obj, exc |-> NoExc, named |-> {}]
    ELSE [L |-> obj, exc |-> "NotImplementedError", named |-> {}]

NewOutcome(op, arg, r) == [op |-> op, arg |-> arg, exc |-> r.exc, named |-> r.named]

InitNew ==
    /\ learner = NoObject
    /\ ret = NewOutcome("import", 0, Constructed(NoObject))
    /\ weights = <<>> /\ np_random = 0
    /\ tune_in = 0 /\ tune_out = NotCalled
    /\ NoDatabase

NewLeaves(r) ==
    /\ learner' = r.L
    /\ UNCHANGED <<weights, np_random, tune_in, tune_out, dbVars>>

\* RankNetCore(**kwargs)
NewRankNetCore ==
    \E kwargs \in KwargLists :
        \E r \in {RankNetCore_new(kwargs)} :
           /\ NewLeaves(r)
           /\ ret' = NewOutcome("__init__", [class |-> "ranknet", kwargs |-> kwargs], r)

\* CmpNetCore(**kwargs)
NewCmpNetCore ==
    \E kwargs \in KwargLists :
        \E r \in {CmpNetCore_new(kwargs)} :
           /\ NewLeaves(r)
           /\ ret' = NewOutcome("__init__", [class |-> "cmpnet", kwargs |-> kwargs], r)

\* FETADiscreteChoiceFunction(**kwargs)
NewFETADiscreteChoiceFunction ==
    \E kwargs \in KwargLists :
        \E r \in {FETADiscreteChoiceFunction_new(kwargs)} :
           /\ NewLeaves(r)
           /\ ret' = NewOutcome("__init__", [class |-> "feta_dc", kwargs |-> kwargs], r)

\* class V(Learner) is defined
DefineVariant ==
    \E impl \in Variants :
        \E r \in {Learner_subclass_define(impl)} :
           /\ NewLeaves(r)
           /\ ret' = NewOutcome("class", [class |-> "variant", impl |-> impl], r)

\* V()
NewVariant ==
    /\ learner.kind = "variant"
    /\ ~learner.constructed
    /\ \E r \in {Learner_subclass_new(learner)} :
           /\ NewLeaves(r)
           /\ ret' = NewOutcome("__init__", [class |-> "variant", impl |-> learner.impl], r)

\* a method of Learner's interface is called on the object
CallVariant ==
    /\ learner.kind = "variant"
    /\ learner.constructed
    /\ \E m \in AbstractMethods \cup HookMethods :
        \E r \in {Learner_subclass_call(learner, m)} :
           /\ NewLeaves(r)
           /\ ret' = NewOutcome(m, [class |-> "variant", impl |-> learner.impl], r)

NextNew ==
    \/ NewRankNetCore \/ NewCmpNetCore \/ NewFETADiscreteChoiceFunction
    \/ DefineVariant \/ NewVariant \/ CallVariant

SpecNew == InitNew /\ [][NextNew]_vars

\* =================================================================
\* The pairwise scoring paths on their own.
\* =================================================================
PairInstances == 1..2
PairFeatures == 0..2
PairWeights == {0, 1}
\* X: two instances of n_objects objects each
PairBatches ==
    UNION { [PairInstances -> [1..n -> PairFeatures]] : n \in 1..MaxObjects }

PairOutcome(op, X, r) ==
    [op |-> op, arg |-> X, val |-> r.scores, enumerated |-> r.enumerated]

\* a fitted pairwise model (wt) and the batch X its scoring runs are given
InitPairs ==
    /\ learner \in {[kind |-> "pairs", wt |-> wt, X |-> X,
                     add_zeroth_order_model |-> z]
                    : wt \in PairWeights, X \in PairBatches, z \in BOOLEAN}
    /\ ret = [op |-> "__init__", arg |-> <<>>, val |-> <<>>, enumerated |-> <<>>]
    /\ weights = <<>> /\ np_random = 0
    /\ tune_in = 0 /\ tune_out = NotCalled
    /\ NoDatabase

\* CmpNetCore._predict_scores_fixed(X) on a fitted learner
PairsCmpNet ==
    /\ ret.op # "_predict_scores_fixed"
    /\ \E r \in {PairwiseScores(learner.wt, learner.X)} :
           /\ ret' = PairOutcome("_predict_scores_fixed", learner.X, r)
           /\ UNCHANGED <<learner, weights, np_random, tune_in, tune_out, dbVars>>

\* FETADiscreteChoiceFunction._predict_scores_using_pairs(X)
PairsFETA ==
    /\ ret.op # "_predict_scores_using_pairs"
    /\ \E r \in {FETADiscreteChoiceFunction_predict_scores_using_pairs(
                    learner.wt, learner.X, learner.add_zeroth_order_model)} :
           /\ ret' = PairOutcome("_predict_scores_using_pairs", learner.X, r)
           /\ UNCHANGED <<learner, weights, np_random, tune_in, tune_out, dbVars>>

\* the trained FETA model (construct_model) on every instance of X
PairsConstructModel ==
    /\ ret.op = "__init__"
    /\ \E r \in {[n \in 1..Len(learner.X) |->
                    FETADiscreteChoiceFunction_construct_model(
                        learner.wt, learner.X[n], learner.add_zeroth_order_model)]} :
           /\ ret' = [op |-> "construct_model", arg |-> learner.X,
                      val |-> [n \in 1..Len(r) |-> r[n].scores],
                      enumerated |-> [n \in 1..Len(r) |-> combinations(Len(learner.X[n]))],
                      rows |-> [n \in 1..Len(r) |-> r[n].rows]]
           /\ UNCHANGED <<learner, weights, np_random, tune_in, tune_out, dbVars>>

\* every ordered pair of objects of the first instance, self-pairs included
AllPairs(x) ==
    [k \in 1..(Len(x) * Len(x)) |->
        <<x[((k - 1) \div Len(x)) + 1], x[((k - 1) % Len(x)) + 1]>>]

\* CmpNetCore.predict_pair(a, b) on a fitted learner: both output columns
PairsPredictPair ==
    /\ ret.op = "__init__"
    /\ \E pairs \in {AllPairs(learner.X[1])} :
        \E r \in {[k \in 1..Len(pairs) |->
                    CmpNetCore_model_predict(learner.wt, pairs[k][1], pairs[k][2])]} :
           /\ ret' = [op |-> "predict_pair", arg |-> pairs, val |-> r,
                      enumerated |-> <<>>]
           /\ UNCHANGED <<learner, weights, np_random, tune_in, tune_out, dbVars>>

NextPairs == PairsCmpNet \/ PairsFETA \/ PairsConstructModel \/ PairsPredictPair

SpecPairs == InitPairs /\ [][NextPairs]_vars

\* =================================================================
\* The keyword arguments and parameters of a Learner.
\* =================================================================
\* A name is the sequence of its parts, "__" being a part of its own:
\* optimizer__lr is <<"optimizer", "__", "lr">>.
Name(base) == <<base>>
Prefix(base) == <<base, "__">>
Nested(base, arg) == <<base, "__", arg>>

\* key.startswith(prefix)
startswith(key, prefix) ==
    Len(prefix) <= Len(key) /\ SubSeq(key, 1, Len(prefix)) = prefix
\* key[len(prefix):]
strip_prefix(key, prefix) == SubSeq(key, Len(prefix) + 1, Len(key))

\* A dict is a function from names to values; **kwargs comes as the list of
\* its items in the order they were given.
Item(key, value) == [key |-> key, value |-> value]
ItemKeys(items) == {items[i].key : i \in 1..Len(items)}
AsDict(items) ==
    [k \in ItemKeys(items) |->
        items[CHOOSE i \in 1..Len(items) : items[i].key = k].value]
\* d.update(e)
dict_update(d, e) ==
    [k \in (DOMAIN d) \cup (DOMAIN e) |-> IF k \in DOMAIN e THEN e[k] ELSE d[k]]

\* the prefixes FETADiscreteChoiceFunction.__init__ passes to _store_kwargs
StorePrefixes ==
    {Prefix("optimizer"), Prefix("kernel_regularizer"), Prefix("hidden_dense_layer")}

\* The parameters of __init__ a learner keeps as attributes, with their
\* defaults; the values are written as strings.
InitSignature == {Name("n_hidden"), Name("optimizer"), Name("kernel_regularizer")}
InitDefaults ==
    [k \in InitSignature |->
        CASE k = Name("n_hidden") -> "2"
          [] k = Name("optimizer") -> "SGD"
          [] OTHER -> "l2"]

\* A learner after __init__ without keyword arguments: a RankNetCore, which
\* never calls _store_kwargs, or a FETADiscreteChoiceFunction, which does.
ParamLearner(kind) ==
    [kind |-> kind, attrs |-> InitDefaults,
     allowed_prefixes_ |-> IF kind = "params_feta" THEN StorePrefixes ELSE {}]

\* inspect.signature(base_class): the parameters with a default, for the
\* classes a parameter may name; None is not callable.
Callables == {"SGD", "Adam", "l2", "Dense"}
signature(base_class) ==
    CASE base_class = "SGD" ->
            [k \in {Name("lr"), Name("momentum")} |-> "1"]
      [] base_class = "Adam" ->
            [k \in {Name("lr"), Name("beta_1")} |-> "1"]
      [] base_class = "l2" -> [k \in {Name("l")} |-> "1"]
      [] OTHER -> [k \in {Name("use_bias")} |-> "1"]

\* The argument lists _store_kwargs is called with.
KwargItems ==
    { <<>>,
      <<Item(Nested("optimizer", "lr"), "2")>>,
      <<Item(Nested("optimizer", "lr"), "1"),
        Item(Nested("kernel_regularizer", "l"), "2")>>,
      <<Item(Name("colour"), "1")>>,
      <<Item(Nested("optimizer", "lr"), "2"), Item(Name("colour"), "1")>>,
      <<Item(Name("colour"), "1"), Item(<<"optimizer", "_", "lr">>, "1")>>,
      <<Item(Prefix("optimizer"), "1")>>,
      <<Item(Name("optimizer"), "Adam")>>,
      <<Item(Nested("hidden_dense_layer", "use_bias"), "2")>> }

\* The argument lists set_params is called with.
ParamItems ==
    { <<>>,
      <<Item(Name("n_hidden"), "3")>>,
      <<Item(Name("n_hidden"), "3"), Item(Name("colour"), "1")>>,
      <<Item(Name("optimizer"), "Adam"), Item(Nested("optimizer", "lr"), "2")>>,
      <<Item(Name("kernel_regularizer"), "None")>>,
      <<Item(Nested("optimizer", "momentum"), "2")>>,
      <<Item(Name("colour"), "1")>>,
      <<Item(Nested("kernel_regularizer", "l"), "2")>> }

\* What a method leaves: the object, the value returned, the exception and
\* the key its message names.
ParamReturn(self, val) == [self |-> self, val |-> val, exc |-> NoExc, named |-> {}]
ParamRaise(self, exc, named) == [self |-> self, val |-> <<>>, exc |-> exc, named |-> named]

\* the first item whose key fails the test legal
FirstIllegal(items, legal(_)) ==
    LET bad == {i \in 1..Len(items) : ~legal(items[i].key)}
    IN IF bad = {} THEN 0 ELSE CHOOSE i \in bad : \A j \in bad : i <= j

\* for prefix in allowed_prefixes: if key.startswith(prefix): return True
has_legal_prefix(key, allowed_prefixes) ==
    \E prefix \in allowed_prefixes : startswith(key, prefix)

RECURSIVE StoreEach(_, _, _, _)
StoreEach(self, items, k, allowed_prefixes) ==
    IF k > Len(items) THEN ParamReturn(self, <<>>)
    ELSE IF ~has_legal_prefix(items[k].key, allowed_prefixes)
    THEN ParamRaise(self, "TypeError", {items[k].key})
    ELSE StoreEach([self EXCEPT !.attrs =
                        dict_update(@, AsDict(<<items[k]>>))],
                   items, k + 1, allowed_prefixes)
Learner_store_kwargs_attrs_in_loop(self, items, allowed_prefixes) ==
    StoreEach([self EXCEPT !.allowed_prefixes_ = allowed_prefixes],
              items, 1, allowed_prefixes)
\* Learner._store_kwargs on an object: allowed_prefixes_ is set, then
\* TypeError naming the first key without a legal prefix, else
\* vars(self).update(kwargs)
Learner_store_kwargs_attrs(self, items, allowed_prefixes) ==
    LET self1 == [self EXCEPT !.allowed_prefixes_ = allowed_prefixes]
        legal(key) == has_legal_prefix(key, allowed_prefixes)
        bad == FirstIllegal(items, legal)
    IN IF bad # 0
       THEN ParamRaise(self1, "TypeError", {items[bad].key})
       ELSE ParamReturn([self1 EXCEPT !.attrs = dict_update(@, AsDict(items))],
                        <<>>)

\* filter_dict_by_prefix(source, prefix)
filter_dict_by_prefix(source, prefix) ==
    [s \in {strip_prefix(k, prefix) : k \in {k \in DOMAIN source : startswith(k, prefix)}}
        |-> source[prefix \o s]]

\* Learner._get_prefix_attributes
Learner_get_prefix_attributes(self, prefix) ==
    filter_dict_by_prefix(self.attrs, prefix)

\* prefix[:-2]: prefixes end with two underscores
base_parameter(prefix) == SubSeq(prefix, 1, Len(prefix) - 1)

\* Learner._prefix_to_class_mapping: the prefixes that cannot be associated
\* to a class, and the class of each of the others
Unassociated(self) ==
    {prefix \in self.allowed_prefixes_ :
        /\ base_parameter(prefix) \notin DOMAIN self.attrs
        /\ base_parameter(prefix) # Name("hidden_dense_layer")}
Learner_prefix_to_class_mapping(self) ==
    [prefix \in self.allowed_prefixes_ \ Unassociated(self) |->
        IF base_parameter(prefix) \in DOMAIN self.attrs
        THEN self.attrs[base_parameter(prefix)]
        ELSE "Dense"]

\* BaseEstimator.get_params(): the parameters of __init__'s signature with
\* the values of the attributes of these names
BaseEstimator_get_params(self) == [k \in InitSignature |-> self.attrs[k]]

\* the parameters of one prefix: the defaults of the class's signature,
\* overridden by the attributes set with this prefix
ParametersForPrefix(self, prefix, base_class) ==
    LET parameters_for_prefix ==
            dict_update(signature(base_class),
                        Learner_get_prefix_attributes(self, prefix))
    IN [k \in {prefix \o arg : arg \in DOMAIN parameters_for_prefix} |->
           parameters_for_prefix[strip_prefix(k, prefix)]]

RECURSIVE MergeDicts(_)
MergeDicts(S) ==
    IF S = {} THEN <<>>
    ELSE LET d == CHOOSE x \in S : TRUE
         IN dict_update(MergeDicts(S \ {d}), d)

\* Learner.get_params(deep=True)
Learner_get_params(self) ==
    LET result  == BaseEstimator_get_params(self)
        mapping == Learner_prefix_to_class_mapping(self)
    IN IF Unassociated(self) # {}
       THEN ParamRaise(self, "ValueError", Unassociated(self))
       ELSE IF \E prefix \in DOMAIN mapping : mapping[prefix] \notin Callables
       THEN ParamRaise(self, "TypeError", {})
       ELSE ParamReturn(self,
                dict_update(result,
                    MergeDicts({ParametersForPrefix(self, prefix, mapping[prefix])
                                : prefix \in DOMAIN mapping})))

\* Learner.set_params(**params)
Learner_set_params(self, items) ==
    Only({ IF g.exc # NoExc THEN g
           ELSE LET legal(key) == key \in DOMAIN g.val
                    bad == FirstIllegal(items, legal)
                IN IF bad # 0
                   THEN ParamRaise(self, "TypeError", {items[bad].key})
                   ELSE ParamReturn([self EXCEPT !.attrs =
                                        dict_update(@, AsDict(items))], <<>>)
           : g \in {Learner_get_params(self)} })

ParamOutcome(op, arg, r, before) ==
    [op |-> op, arg |-> arg, exc |-> r.exc, val |-> r.val, named |-> r.named,
     before |-> before]

InitParams ==
    /\ learner \in {ParamLearner(kind) : kind \in {"params_ranknet", "params_feta"}}
    /\ ret = ParamOutcome("__init__", <<>>, ParamReturn(0, <<>>), learner)
    /\ weights = <<>> /\ np_random = 0
    /\ tune_in = 0 /\ tune_out = NotCalled
    /\ NoDatabase

\* learner._store_kwargs(kwargs, allowed_prefixes)
StoreKwargs ==
    \E items \in KwargItems :
        \E r \in {Learner_store_kwargs_attrs(learner, items, StorePrefixes)} :
           /\ learner' = r.self
           /\ ret' = ParamOutcome("_store_kwargs", items, r, learner)
           /\ UNCHANGED <<weights, np_random, tune_in, tune_out, dbVars>>

\* learner._get_prefix_attributes(prefix)
GetPrefixAttributes ==
    \E prefix \in StorePrefixes :
        \E r \in {ParamReturn(learner, Learner_get_prefix_attributes(learner, prefix))} :
           /\ learner' = r.self
           /\ ret' = ParamOutcome("_get_prefix_attributes", prefix, r, learner)
           /\ UNCHANGED <<weights, np_random, tune_in, tune_out, dbVars>>

\* learner.set_params(**params)
SetParams ==
    \E items \in ParamItems :
        \E r \in {Learner_set_params(learner, items)} :
           /\ learner' = r.self
           /\ ret' = ParamOutcome("set_params", items, r, learner)
           /\ UNCHANGED <<weights, np_random, tune_in, tune_out, dbVars>>

\* learner.get_params()
GetParams ==
    \E r \in {Learner_get_params(learner)} :
       /\ learner' = r.self
       /\ ret' = ParamOutcome("get_params", <<>>, r, learner)
       /\ UNCHANGED <<weights, np_random, tune_in, tune_out, dbVars>>

NextParams == StoreKwargs \/ GetPrefixAttributes \/ SetParams \/ GetParams

SpecParams == InitParams /\ [][NextParams]_vars

\* =================================================================
\* The job database and the DBConnector of every worker.
\* =================================================================
\* Every block of fetch_job_arguments between init_connection and
\* close_connection is one transaction, committed by close_connection, and
\* is one step here; the steps of different workers interleave.
MaxTime == 2
MaxErrors == 1

Jobs == {1, 2, 3}
Clusters == {1, 2}

\* the jobs of avail_jobs with is_gpu = TRUE; every worker's DBConnector
\* has is_gpu = FALSE, the default of __init__
GpuJobs == {3}

\* the interval job['duration'] of every job, in ticks of the clock
JobDuration == 1

\* no row of running_jobs has this job_id
NoRow == [present |-> FALSE]

\* the value 'NA' of error_history
NA == <<>>

\* DBConnector.__init__: job_description is None (0); held records what
\* became of the job the last fetch returned with
DBConnector_init ==
    [pc |-> "idle", is_gpu |-> FALSE, all_jobs |-> <<>>, job_id |-> 0,
     job_description |-> 0, held |-> "none"]

\* get_duration_seconds(job['duration'])
get_duration_seconds(duration) == duration

\* the rows of avail_jobs add_jobs_in_avail_which_failed selects:
\* their job is in running_jobs, neither interrupted nor finished
\* (the statements have no ORDER BY; rows are taken in job_id order)
SelectUnfinishedJobs ==
    SortedSeq({j \in Jobs : /\ running_jobs[j].present
                            /\ ~running_jobs[j].interrupted
                            /\ ~running_jobs[j].finished})

\* the job_ids fetch_job_arguments selects for a worker: is_gpu is the
\* worker's, and no row of running_jobs with interrupted = FALSE has the
\* job_id
SelectFreeJobs(is_gpu) ==
    SortedSeq({j \in Jobs : /\ avail_jobs[j].is_gpu = is_gpu
                            /\ ~(running_jobs[j].present
                                 /\ ~running_jobs[j].interrupted)})

\* the worker holding job_id learns nothing of an UPDATE; held follows the
\* row for the sake of the properties
Lose(conn, job_id, what) ==
    [c \in Clusters |->
        IF conn[c].job_description = job_id /\ conn[c].held = "held"
        THEN [conn[c] EXCEPT !.held = what] ELSE conn[c]]

\* append_error_string_in_running_job(job_id, error_message): the UPDATE
\* has no condition but the job_id
DBConnector_append_error_string_in_running_job(rows, job_id) ==
    LET cur_message == rows[job_id]
    IN [rows EXCEPT ![job_id] =
          [@ EXCEPT !.error_history = <<cur_message.cluster_id>>
                                          \o cur_message.error_history,
                    !.interrupted = TRUE]]

\* mark_running_job_finished(job_id)
DBConnector_mark_running_job_finished(rows, job_id) ==
    IF rows[job_id].present
    THEN [rows EXCEPT ![job_id] = [@ EXCEPT !.finished = TRUE,
                                            !.interrupted = FALSE]]
    ELSE rows

\* the rows of running_jobs after the second transaction of
\* fetch_job_arguments: INSERT when count(*) is 0, UPDATE otherwise
DBConnector_allocate(rows, job_id, cluster_id) ==
    IF ~rows[job_id].present
    THEN [rows EXCEPT ![job_id] =
            [present |-> TRUE, cluster_id |-> cluster_id,
             finished |-> FALSE, interrupted |-> FALSE,
             error_history |-> NA]]
    ELSE [rows EXCEPT ![job_id] = [@ EXCEPT !.cluster_id = cluster_id,
                                            !.interrupted = FALSE]]

DBEvent(op, cluster_id, job_id, exc) ==
    [op |-> op, cluster_id |-> cluster_id, job_id |-> job_id, exc |-> exc,
     was_finished |-> FALSE]

InitDB ==
    /\ tune_in = 0 /\ tune_out = NotCalled
    /\ learner = 0 /\ weights = <<>> /\ np_random = 0
    /\ ret = DBEvent("none", 0, 0, NoExc)
    /\ avail_jobs = [j \in Jobs |-> [is_gpu |-> j \in GpuJobs,
                                     job_allocated_time |-> 0,
                                     duration |-> JobDuration]]
    /\ running_jobs = [j \in Jobs |-> NoRow]
    /\ connector = [c \in Clusters |-> DBConnector_init]
    /\ now = 0

\* time passes
Tick ==
    /\ now < MaxTime
    /\ now' = now + 1
    /\ UNCHANGED <<avail_jobs, running_jobs, connector, learnerVars, tuneVars>>

\* a worker starts again with a new DBConnector
NewConnector(c) ==
    /\ connector[c].pc = "idle"
    /\ connector[c].job_description # 0
    /\ connector' = [connector EXCEPT ![c] = DBConnector_init]
    /\ ret' = DBEvent("__init__", c, 0, NoExc)
    /\ UNCHANGED <<avail_jobs, running_jobs, now, learner, weights,
                   np_random, tuneVars>>

\* fetch_job_arguments(c) up to the close_connection of
\* add_jobs_in_avail_which_failed: all_jobs is fetched
FetchSweepSelect(c) ==
    /\ connector[c].pc = "idle"
    /\ connector' = [connector EXCEPT ![c] =
            [@ EXCEPT !.pc = "sweep",
                      !.all_jobs = [k \in 1..Len(SelectUnfinishedJobs) |->
                          [job_id |-> SelectUnfinishedJobs[k],
                           job_allocated_time |->
                               avail_jobs[SelectUnfinishedJobs[k]].job_allocated_time,
                           duration |->
                               avail_jobs[SelectUnfinishedJobs[k]].duration]]]]
    /\ ret' = DBEvent("add_jobs_in_avail_which_failed", c, 0, NoExc)
    /\ UNCHANGED <<avail_jobs, running_jobs, now, learner, weights,
                   np_random, tuneVars>>

\* one turn of the loop over all_jobs
FetchSweepJob(c) ==
    /\ connector[c].pc = "sweep"
    /\ connector[c].all_jobs # <<>>
    /\ LET job == Head(connector[c].all_jobs)
           new_date == job.job_allocated_time + get_duration_seconds(job.duration)
           rest == [connector EXCEPT ![c] = [@ EXCEPT !.all_jobs = Tail(@)]]
       IN IF new_date < now
          THEN /\ Len(running_jobs[job.job_id].error_history) < MaxErrors
               /\ running_jobs' = DBConnector_append_error_string_in_running_job(
                                      running_jobs, job.job_id)
               /\ connector' = Lose(rest, job.job_id, "interrupted")
               /\ ret' = DBEvent("append_error_string_in_running_job", c,
                                 job.job_id, NoExc)
          ELSE /\ connector' = rest
               /\ ret' = DBEvent("not expired", c, job.job_id, NoExc)
               /\ UNCHANGED running_jobs
    /\ UNCHANGED <<avail_jobs, now, learner, weights, np_random, tuneVars>>

\* the first transaction of fetch_job_arguments: job_ids is selected and
\* the while loop runs
FetchSelect(c) ==
    /\ connector[c].pc = "sweep"
    /\ connector[c].all_jobs = <<>>
    /\ LET job_ids == SelectFreeJobs(connector[c].is_gpu)
       IN IF connector[c].job_description # 0
          THEN \* the loop is skipped and job_id, hash_value are unbound
               /\ connector' = [connector EXCEPT ![c] = [@ EXCEPT !.pc = "idle"]]
               /\ ret' = DBEvent("fetch_job_arguments", c, 0, "UnboundLocalError")
          ELSE IF job_ids = <<>>
          THEN \* IndexError, break: the call returns with no job
               /\ connector' = [connector EXCEPT ![c] = [@ EXCEPT !.pc = "idle"]]
               /\ ret' = DBEvent("fetch_job_arguments", c, 0, NoExc)
          ELSE /\ connector' = [connector EXCEPT ![c] =
                      [@ EXCEPT !.pc = "described",
                                !.job_id = job_ids[1],
                                !.job_description = job_ids[1]]]
               /\ ret' = DBEvent("select", c, job_ids[1], NoExc)
    /\ UNCHANGED <<avail_jobs, running_jobs, now, learner, weights,
                   np_random, tuneVars>>

\* the second transaction of fetch_job_arguments, and its return
FetchAllocate(c) ==
    /\ connector[c].pc = "described"
    /\ LET job_id == connector[c].job_id
       IN /\ avail_jobs' = [avail_jobs EXCEPT ![job_id] =
                               [@ EXCEPT !.job_allocated_time = now]]
          /\ running_jobs' = DBConnector_allocate(running_jobs, job_id, c)
          /\ connector' = [connector EXCEPT ![c] =
                              [@ EXCEPT !.pc = "idle", !.held = "held"]]
          /\ ret' = [DBEvent("fetch_job_arguments", c, job_id, NoExc) EXCEPT
                        !.was_finished = running_jobs[job_id].present
                                         /\ running_jobs[job_id].finished]
    /\ UNCHANGED <<now, learner, weights, np_random, tuneVars>>

\* the worker has run its job: mark_running_job_finished(job_id)
MarkFinished(c) ==
    /\ connector[c].pc = "idle"
    /\ connector[c].held \in {"held", "interrupted"}
    /\ LET job_id == connector[c].job_id
       IN /\ running_jobs' = DBConnector_mark_running_job_finished(
                                 running_jobs, job_id)
          /\ connector' = [connector EXCEPT
                              ![c] = [@ EXCEPT !.held = "finished"]]
          /\ ret' = DBEvent("mark_running_job_finished", c, job_id, NoExc)
    /\ UNCHANGED <<avail_jobs, now, learner, weights, np_random, tuneVars>>

NextDB ==
    \/ Tick
    \/ \E c \in Clusters : NewConnector(c)
    \/ \E c \in Clusters : FetchSweepSelect(c)
    \/ \E c \in Clusters : FetchSweepJob(c)
    \/ \E c \in Clusters : FetchSelect(c)
    \/ \E c \in Clusters : FetchAllocate(c)
    \/ \E c \in Clusters : MarkFinished(c)

SpecDB == InitDB /\ [][NextDB]_vars

\* ------------------------------------------------------ what calls did
IsFit == ret.op = "fit"
FitRaisedInTraining == IsFit /\ ret.arg.fail # "none"
Returned == ret.exc = NoExc
Before(log, a, b) ==
    \E j, k \in 1..Len(log) : j < k /\ log[j] = a /\ log[k] = b
NumBatches(X) == IF X.dict THEN Len(X.items) ELSE 1

C2_ScoringModelOfLatestFit ==
    (learner.kind = "ranknet" /\ learner.scoring_model # 0
        /\ learner.model = learner.hidden_layers)
    => learner.scoring_model = learner.hidden_layers

\* C3: a fit on a CmpNet learner trains a model whose weights do not depend
\* on an earlier fit: the layers it trains carry their initial weights when
\* training starts.
C3_FitStartsFromFreshLayers ==
    (learner.kind = "cmpnet" /\ ret.op = "fit" /\ ret.arg.hook = "subclass")
    => ret.started_from = InitialWeights

\* C4: a fit with tune_size = 0 that returns leaves the threshold at 0.5,
\* trained on the whole batch, made no split and never called
\* _tune_threshold.
C4_NoTuningAtTuneSizeZero ==
    (IsFit /\ ret.arg.tune_size = 0 /\ Returned) =>
        /\ learner.has_threshold
        /\ learner.threshold = DefaultThreshold
        /\ ret.trained_on = [called |-> TRUE, X |-> ret.arg.batch.X,
                             Y |-> ret.arg.batch.Y]
        /\ Count(ret.log, "train_test_split") = 0
        /\ Count(ret.log, "_tune_threshold") = 0

\* a second fit, with tune_size = 0, has returned
C4_Witness ==
    /\ IsFit /\ ret.arg.tune_size = 0 /\ Returned
    /\ Len(weights) = 2
    /\ learner.threshold = DefaultThreshold

\* C5: when training raises in a fit with tune_size > 0, _tune_threshold is
\* still called, after the training attempt, before fit gives control back.
C5_TuningAttemptedAfterFailedTraining ==
    (FitRaisedInTraining /\ ret.arg.tune_size > 0) =>
        /\ Count(ret.log, "_tune_threshold") = 1
        /\ Before(ret.log, "fit", "_tune_threshold")

\* training failed after updating weights, and the tuning that followed
\* set the threshold
C5_Witness ==
    /\ FitRaisedInTraining /\ ret.arg.tune_size > 0
    /\ ret.exc = "TrainError"
    /\ Before(ret.log, "_tune_threshold", "set_threshold")
    /\ learner.tuned

\* C6: when training raises E in a fit with tune_size > 0, E is what the
\* caller of fit gets.
C6_OriginalExceptionReachesCaller ==
    (FitRaisedInTraining /\ ret.arg.tune_size > 0) =>
        ret.exc = (IF ret.arg.fail = "convert" THEN "ConvertError" ELSE "TrainError")

\* C7: only fit changes the threshold, and a fit that returns assigns it
\* exactly once.
C7_OnlyFitChangesThreshold ==
    /\ [][ret'.op # "fit" =>
            /\ learner'.threshold = learner.threshold
            /\ learner'.has_threshold = learner.has_threshold]_vars
    /\ []((IsFit /\ Returned) => Count(ret.log, "set_threshold") = 1)

\* a learner called after a fit that tuned its threshold away from 0.5
C7_Witness ==
    /\ ret.op = "__call__" /\ Returned
    /\ learner.tuned
    /\ learner.threshold # DefaultThreshold

\* C8: predict returns score > threshold for every object (strictly), and a
\* threshold that was not tuned is 0.5.
C8_StrictThresholdDecision ==
    (learner.kind = "feta" /\ ret.op = "predict" /\ Returned) =>
        /\ ~learner.tuned => learner.threshold = DefaultThreshold
        /\ \A n \in 1..Len(ret.arg.batch) : \A i \in 1..Len(ret.arg.batch[n]) :
              ret.val.batch[n][i] <=>
                  Net(weights[learner.model], ret.arg.batch[n][i]) > learner.threshold

\* an untuned learner rejects an object scoring exactly 0.5 and chooses one
\* scoring above it
C8_Witness ==
    /\ learner.kind = "feta" /\ ret.op = "predict" /\ Returned
    /\ ~learner.tuned
    /\ \E n \in 1..Len(ret.arg.batch) : \E i, j \in 1..Len(ret.arg.batch[n]) :
          /\ Net(weights[learner.model], ret.arg.batch[n][i]) = DefaultThreshold
          /\ ~ret.val.batch[n][i]
          /\ ret.val.batch[n][j]

\* C13: two fit calls in a row with identical data and arguments, on a
\* learner constructed with a seed, train on the same part of the batch (and
\* so tune on the same part) and leave the same threshold.
C13_SameSeedSamePartition ==
    [][(/\ ret.op = "fit" /\ ret'.op = "fit"
        /\ ret.arg.tune_size > 0
        /\ ret'.arg = ret.arg
        /\ ret.exc = NoExc /\ ret'.exc = NoExc
        /\ learner.random_state # 0)
       => /\ ret'.trained_on = ret.trained_on
          /\ learner'.threshold = learner.threshold]_vars

\* The keys of a constructor call that are neither a recognized option nor
\* carry a recognized prefix.
UnknownKeys(kwargs) ==
    {k \in Range(kwargs) :
        k \notin allowed_dense_kwargs /\ k.prefix \notin AllowedPrefixes}

\* C14: a constructor given a keyword argument that is neither a recognized
\* option nor carries a recognized prefix raises an error naming such a key,
\* and no object is made.
C14_UnknownKeywordRejected ==
    (ret.op = "__init__" /\ ret.arg.class \in {"ranknet", "cmpnet", "feta_dc"}
        /\ UnknownKeys(ret.arg.kwargs) # {})
    => /\ ret.exc = "TypeError"
       /\ ret.named \subseteq UnknownKeys(ret.arg.kwargs)
       /\ ret.named # {}
       /\ learner = NoObject

\* C16 as stated: a subclass of Learner without fit or without
\* _predict_scores_fixed is defined and constructed without error.
C16_ConstructsWithoutCapability ==
    (learner.kind = "variant" /\ ret.op \in {"class", "__init__"}
        /\ \E m \in AbstractMethods : learner.impl[m] = "absent")
    => ret.exc = NoExc

\* C16, amended: defining a subclass of Learner never fails; constructing it
\* fails with TypeError exactly when fit or _predict_scores_fixed has no
\* body in the subclass; on a constructed object a call ends with
\* NotImplementedError exactly when it reaches the body in Learner.
C16_AbstractMethodsBlockConstruction ==
    learner.kind = "variant" =>
        /\ ret.op = "class" => ret.exc = NoExc /\ ~learner.constructed
        /\ ret.op = "__init__" =>
              /\ ret.exc = (IF \E m \in AbstractMethods : learner.impl[m] = "absent"
                            THEN "TypeError" ELSE NoExc)
              /\ learner.constructed <=> ret.exc = NoExc
        /\ learner.constructed =>
              \A m \in AbstractMethods : learner.impl[m] # "absent"
        /\ ret.op \in AbstractMethods \cup HookMethods =>
              ret.exc = (IF learner.impl[ret.op] = "own"
                         THEN NoExc ELSE "NotImplementedError")

\* a class without fit was defined and its construction was refused
C16_Witness ==
    /\ learner.kind = "variant"
    /\ ret.op = "__init__" /\ ret.exc = "TypeError"
    /\ learner.impl["fit"] = "absent"
    /\ learner.impl["_predict_scores_fixed"] = "own"

\* C15: set_tunable_parameters given keys it does not support returns
\* normally, with the five supported parameters applied, new layers of the
\* new architecture, a warning naming exactly the unsupported keys, and none
\* of those keys stored on the learner.
C15_UnsupportedKeysWarned ==
    (learner.kind = "cmpnet" /\ ret.op = "set_tunable_parameters") =>
        /\ ret.exc = NoExc
        /\ learner.n_hidden = ret.arg.p.n_hidden
        /\ learner.n_units = ret.arg.p.n_units
        /\ learner.reg_strength = ret.arg.p.reg_strength
        /\ learner.learning_rate = ret.arg.p.learning_rate
        /\ learner.batch_size = ret.arg.p.batch_size
        /\ learner.hidden_layers = Len(weights)
        /\ weights[learner.hidden_layers] =
              [n_hidden |-> ret.arg.p.n_hidden, n_units |-> ret.arg.p.n_units,
               w |-> InitialWeights]
        /\ ret.warned = Warned(ret.arg.point)
        /\ Count(ret.log, "logger.warning") = (IF Len(ret.arg.point) > 0 THEN 1 ELSE 0)
        /\ learner.extra = {}

\* a fitted learner was given two unsupported keys with a new architecture
C15_Witness ==
    /\ learner.kind = "cmpnet" /\ ret.op = "set_tunable_parameters"
    /\ Len(ret.arg.point) = 2
    /\ learner.model # 0
    /\ learner.model # learner.hidden_layers
    /\ weights[learner.model].n_hidden # learner.n_hidden

\* C17: fit on a core class that has only the base pair-conversion hook ends
\* with NotImplementedError from the hook, before a model is built.
C17_BaseHookRaisesNotImplementedError ==
    (learner.kind = "cmpnet" /\ ret.op = "fit" /\ ret.arg.hook = "base") =>
        /\ ret.exc = "NotImplementedError"
        /\ ret.log = <<"convert_instances">>

\* C18: predict_scores returns a result shaped as its input: for a mapping
\* a mapping with the same keys, each value the _predict_scores_fixed of
\* that key's batch; for a single batch its _predict_scores_fixed.
C18_ScoresShapedAsInput ==
    (learner.kind = "ranknet" /\ ret.op = "predict_scores" /\ Returned) =>
        /\ ret.val.dict = ret.arg.dict
        /\ ret.arg.dict =>
              /\ Len(ret.val.items) = Len(ret.arg.items)
              /\ \A k \in 1..Len(ret.arg.items) :
                    /\ ret.val.items[k].key = ret.arg.items[k].key
                    /\ ret.val.items[k].x =
                          predict_scores_fixed(World, ret.arg.items[k].x).val
        /\ ~ret.arg.dict =>
              ret.val.batch = predict_scores_fixed(World, ret.arg.batch).val

\* scores were returned for a mapping with batches of two and of three
\* objects
C18_Witness ==
    /\ learner.kind = "ranknet" /\ ret.op = "predict_scores" /\ Returned
    /\ ret.arg.dict
    /\ Len(ret.val.items) = 2
    /\ Len(ret.val.items[1].x[1]) = 2
    /\ Len(ret.val.items[2].x[1]) = 3

IsPairwiseCall == ret.op \in {"_predict_scores_fixed", "_predict_scores_using_pairs"}
LexLess(p, q) == p[1] < q[1] \/ (p[1] = q[1] /\ p[2] < q[2])

\* C19: for every instance of n objects a pairwise scoring run enumerates
\* n*(n-1) index pairs: every ordered pair (i, j) with i # j once, no
\* self-pair, in ascending lexicographic order, so in the same order on
\* every call.
C19_OrderedPairsOnceEach ==
    (learner.kind = "pairs" /\ IsPairwiseCall) =>
        \A m \in 1..Len(ret.arg) :
            LET n == Len(ret.arg[m])
                e == ret.enumerated[m]
            IN /\ Len(e) = n * (n - 1)
               /\ \A i, j \in 0..(n - 1) :
                     Cardinality({k \in 1..Len(e) : e[k] = <<i, j>>})
                         = (IF i = j THEN 0 ELSE 1)
               /\ \A k \in 1..(Len(e) - 1) : LexLess(e[k], e[k + 1])

\* a run over instances of three objects
C19_Witness ==
    /\ learner.kind = "pairs" /\ IsPairwiseCall
    /\ Len(ret.arg[1]) = 3
    /\ Len(ret.enumerated) = 2
    /\ ret.enumerated[2][6] = <<2, 1>>

\* The pairwise part of a returned score: the mean itself, or what the
\* sigmoid was applied to.
PairwiseMean(v) ==
    IF ret.op # "_predict_scores_using_pairs" THEN v
    ELSE IF learner.add_zeroth_order_model THEN v.weighted_sum[1]
    ELSE v.sigmoid

\* C20: the pairwise utility of object i of instance m is the mean of the
\* n-1 scores U1(x_i, x_j), j # i, of instance m and of nothing else.
C20_RowMeanOfOwnPairs ==
    (learner.kind = "pairs" /\ IsPairwiseCall) =>
        \A m \in 1..Len(ret.arg) :
            LET x == ret.arg[m]
                n == Len(x)
            IN /\ Len(ret.val[m]) = n
               /\ \A i \in 1..n :
                     PairwiseMean(ret.val[m][i]) =
                        [sum |-> SumSeq([j \in 1..n |->
                                    IF j = i THEN 0
                                    ELSE PairNet(learner.wt, x[i], x[j])]),
                         count |-> n - 1]

\* instances of three objects whose objects get different utilities, the
\* two instances differing
C20_Witness ==
    /\ learner.kind = "pairs" /\ IsPairwiseCall
    /\ Len(ret.arg[1]) = 3
    /\ ret.arg[1] # ret.arg[2]
    /\ ret.val[1] # ret.val[2]
    /\ ret.val[1][1] # ret.val[1][2]
    /\ ret.val[1][2] # ret.val[1][3]

\* The batches of scores a predict_scores call returned with the batches of
\* objects they were computed for.
ScoredBatches ==
    IF ret.arg.dict
    THEN {[x |-> ret.arg.items[k].x, s |-> ret.val.items[k].x]
            : k \in 1..Len(ret.arg.items)}
    ELSE {[x |-> ret.arg.batch, s |-> ret.val.batch]}
\* the pairwise decision derived from the scores s of one query set
Prefers(s, a, c) == s[a] > s[c]

\* C21: predict_scores of a RankNet learner gives every object one value,
\* the scoring model's output on that object, and the pairwise preference
\* derived from these values is transitive within a query set.
C21_ScoreDerivedPreferenceTransitive ==
    (learner.kind = "ranknet" /\ ret.op = "predict_scores" /\ Returned) =>
        \A b \in ScoredBatches : \A n \in 1..Len(b.x) :
            /\ Len(b.s[n]) = Len(b.x[n])
            /\ \A a \in 1..Len(b.x[n]) :
                  b.s[n][a] = Net(weights[learner.scoring_model], b.x[n][a])
            /\ \A a, o, c \in 1..Len(b.x[n]) :
                  (Prefers(b.s[n], a, o) /\ Prefers(b.s[n], o, c))
                      => Prefers(b.s[n], a, c)

\* scores were returned for a query set with three objects of strictly
\* decreasing score
C21_Witness ==
    /\ learner.kind = "ranknet" /\ ret.op = "predict_scores" /\ Returned
    /\ \E b \in ScoredBatches : \E n \in 1..Len(b.x) :
          \E a, o, c \in 1..Len(b.x[n]) :
              Prefers(b.s[n], a, o) /\ Prefers(b.s[n], o, c)

\* a clear_memory call on a learner that has a model
ClearedMemory ==
    /\ learner.kind = "cmpnet" /\ ret.op = "clear_memory"
    /\ ret.exc # "AttributeError"

\* C22: clear_memory saves, releases, rebuilds and restores in this order:
\* the file gets the model's weights as they were before the session is
\* cleared, the load comes after the layers and the model were rebuilt, and
\* the file holds at the load what the save wrote, weights and architecture.
C22_SaveReleaseRebuildRestore ==
    ClearedMemory =>
        /\ \A ev \in {"save_weights", "clear_session", "_construct_layers",
                       "construct_model", "load_weights"} : Count(ret.log, ev) = 1
        /\ Before(ret.log, "save_weights", "clear_session")
        /\ Before(ret.log, "clear_session", "_construct_layers")
        /\ Before(ret.log, "_construct_layers", "construct_model")
        /\ Before(ret.log, "construct_model", "load_weights")
        /\ ret.val.saved = ret.val.before
        /\ ret.val.at_load = ret.val.saved
        /\ learner.hash_file = ret.val.saved
        /\ Returned => weights[learner.model].w = ret.val.saved.w

\* a trained model went through clear_memory and came back
C22_Witness ==
    /\ ClearedMemory /\ Returned
    /\ ret.val.before.w # InitialWeights
    /\ weights[learner.model].w = ret.val.before.w
    /\ \E k \in 1..Len(weights) : weights[k].w = Released

\* C23: clear_memory on a learner that has a model returns with a model of
\* the same architecture and the same weights as before the call, so the
\* scores of every batch are the same before and after.
C23_ClearMemoryRoundTrip ==
    ClearedMemory =>
        /\ Returned
        /\ weights[learner.model] = ret.val.before
        /\ \A b \in Batches :
              PairwiseScores(weights[learner.model].w, b.X).scores
                  = PairwiseScores(ret.val.before.w, b.X).scores

Competitor(i, c) == IF c < i THEN c ELSE c + 1

\* C25: in the training graph for n objects row i of the pairwise matrix
\* has n-1 entries, one per competitor in increasing index order; the entry
\* for competitor j is the sub-network's output for the ordered pair
\* (x_i, x_j): N_g of the combination (i, j) when i < j, N_l of (j, i) when
\* i > j; all entries come from the same layers.
C25_RowsHoldOwnOrderedPairs ==
    (learner.kind = "pairs" /\ ret.op = "construct_model") =>
        \A m \in 1..Len(ret.arg) :
            LET x == ret.arg[m]
                n == Len(x)
            IN \A i \in 1..n :
                /\ Len(ret.rows[m][i]) = n - 1
                /\ \A c \in 1..(n - 1) :
                      LET j == Competitor(i, c)
                          e == ret.rows[m][i][c]
                      IN /\ e.val = FETADiscreteChoiceFunction_pair(
                                        learner.wt, x[i], x[j]).N_g
                         /\ i < j => (e.out = "N_g" /\ e.comb = <<i - 1, j - 1>>)
                         /\ i > j => (e.out = "N_l" /\ e.comb = <<j - 1, i - 1>>)
                         /\ e.layers = learner.wt

\* the graph for three objects, where the middle row holds an N_l entry
\* followed by an N_g entry of another value
C25_Witness ==
    /\ learner.kind = "pairs" /\ ret.op = "construct_model"
    /\ Len(ret.arg[1]) = 3
    /\ ret.rows[1][2][1].out = "N_l"
    /\ ret.rows[1][2][2].out = "N_g"
    /\ ret.rows[1][2][1].val # ret.rows[1][2][2].val
    /\ ret.rows[1][1][1].val # ret.rows[1][2][1].val

\* 1 - v for an output v, the outputs 0, 1/2, 1 being written 0, 1, 2
Complement(v) == 2 - v

\* C26: the two outputs of the CmpNet pair model mirror each other under a
\* swap of the inputs: N_g(a, b) = N_l(b, a) and N_l(a, b) = N_g(b, a).
C26_OutputsMirrorUnderSwap ==
    (learner.kind = "pairs" /\ ret.op = "predict_pair") =>
        \A k, l \in 1..Len(ret.arg) :
            (ret.arg[k] = <<ret.arg[l][2], ret.arg[l][1]>>) =>
                /\ ret.val[k].N_g = ret.val[l].N_l
                /\ ret.val[k].N_l = ret.val[l].N_g

\* a pair of different objects whose two outputs differ and are not
\* complementary
C26_Witness ==
    /\ learner.kind = "pairs" /\ ret.op = "predict_pair"
    /\ \E k \in 1..Len(ret.arg) :
          /\ ret.arg[k][1] # ret.arg[k][2]
          /\ ret.val[k].N_g # ret.val[k].N_l
          /\ ret.val[k].N_g # Complement(ret.val[k].N_l)

\* the keys of a _store_kwargs call that start with none of the prefixes
WithoutPrefix(items) ==
    {k \in ItemKeys(items) : \A prefix \in StorePrefixes : ~startswith(k, prefix)}

\* C27: _store_kwargs raises TypeError exactly when some keyword starts with
\* none of the allowed prefixes, and then no attribute of the learner has
\* changed; otherwise every keyword is an attribute under its full name
\* with its value, the other attributes are as before, and
\* _get_prefix_attributes finds it under its name without the prefix.
C27_StoreKwargsAllOrNothing ==
    (learner.kind \in {"params_ranknet", "params_feta"}
        /\ ret.op = "_store_kwargs") =>
        /\ (ret.exc = "TypeError") <=> (WithoutPrefix(ret.arg) # {})
        /\ ret.exc \in {NoExc, "TypeError"}
        /\ WithoutPrefix(ret.arg) # {} =>
              /\ learner.attrs = ret.before.attrs
              /\ ret.named \subseteq WithoutPrefix(ret.arg)
        /\ WithoutPrefix(ret.arg) = {} =>
              /\ DOMAIN learner.attrs =
                    (DOMAIN ret.before.attrs) \cup ItemKeys(ret.arg)
              /\ \A i \in 1..Len(ret.arg) :
                    /\ learner.attrs[ret.arg[i].key] = ret.arg[i].value
                    /\ \A prefix \in StorePrefixes :
                          startswith(ret.arg[i].key, prefix) =>
                             Learner_get_prefix_attributes(learner, prefix)
                                 [strip_prefix(ret.arg[i].key, prefix)]
                                 = ret.arg[i].value
              /\ \A k \in (DOMAIN ret.before.attrs) \ ItemKeys(ret.arg) :
                    learner.attrs[k] = ret.before.attrs[k]

\* a call whose first keyword has an allowed prefix and whose second has
\* none was rejected, on a learner that had stored a keyword before
C27_Witness ==
    /\ learner.kind = "params_feta" /\ ret.op = "_store_kwargs"
    /\ ret.exc = "TypeError"
    /\ Len(ret.arg) = 2
    /\ WithoutPrefix(ret.arg) = {ret.arg[2].key}
    /\ Nested("kernel_regularizer", "l") \in DOMAIN learner.attrs
    /\ ret.arg[1].key \notin DOMAIN learner.attrs

\* C28: set_params on a learner whose get_params() returns: when a given
\* name is not among the keys of get_params() it raises TypeError and the
\* learner is unchanged; otherwise every given parameter is set and a
\* following get_params() returns the given value for each.
C28_SetParamsAllOrNothing ==
    (learner.kind \in {"params_ranknet", "params_feta"}
        /\ ret.op = "set_params"
        /\ Learner_get_params(ret.before).exc = NoExc) =>
        LET legal == DOMAIN Learner_get_params(ret.before).val
        IN IF ItemKeys(ret.arg) \subseteq legal
           THEN /\ ret.exc = NoExc
                /\ \A i \in 1..Len(ret.arg) :
                      /\ learner.attrs[ret.arg[i].key] = ret.arg[i].value
                      /\ Learner_get_params(learner).exc = NoExc
                      /\ Learner_get_params(learner).val[ret.arg[i].key]
                             = ret.arg[i].value
           ELSE /\ ret.exc = "TypeError"
                /\ learner = ret.before

\* C29: a job is held by at most one worker at a time: no two workers'
\* fetch_job_arguments have returned with the same job unless the job was
\* marked interrupted, or finished, after the first of them was given it.
C29_JobHeldByOneWorker ==
    \A c1, c2 \in Clusters :
        (/\ c1 # c2
         /\ connector[c1].held = "held"
         /\ connector[c2].held = "held")
        => connector[c1].job_description # connector[c2].job_description

\* C30: a job marked finished is not interrupted afterwards, and no
\* fetch_job_arguments returns with a job that was finished.
C30_FinishedStaysFinished ==
    /\ \A j \in Jobs :
          (running_jobs[j].present /\ running_jobs[j].finished)
          => ~running_jobs[j].interrupted
    /\ ret.op = "fetch_job_arguments" => ~ret.was_finished

====
